---- MODULE Spec2Model ----
(***************************************************************************)
(* OpenStrength ingest: the harvesters' store, orchestration, rate         *)
(* limiting and fetch/retry logic, one sub-machine per concern.            *)
(* Each sub-machine has its own variables, Init and Next; the variables of *)
(* the other sub-machines stay at their idle values.                       *)
(***************************************************************************)
EXTENDS Integers, Sequences, FiniteSets, TLC

VARIABLES
    \* ---- store: one final path and its ".tmp" sibling ----
    final,      \* file at `path`
    tmp,        \* file at `path.tmp`
    wpc,        \* position of the writer process
    wimpl,      \* which safe_write_* implementation is running
    wdata,      \* the data handed to the write in progress / last write
    wprev,      \* content of `path` when that write was called
    \* ---- harvest: one connector run over the candidates of a source ----
    conn,       \* the connector whose harvest function runs
    whitelist,  \* configured license whitelist / allow list
    permit,     \* pmc: permit_unlicensed_readonly
    attrs,      \* the candidates the source returns, by external id
    run,        \* which invocation of the harvest this is
    idx,        \* position in the candidate list of the current run
    hpc,        \* "run", "done", "raised"
    disk,       \* artifact tree: <<id, kind>> -> file
    jsonl,      \* unpaywall: the two append-only .jsonl logs
    snap,       \* artifact tree as the previous run left it
    last,       \* what the processing of the last candidate did
    \* ---- keys: two records of one source and their on-disk keys ----
    kconn,      \* the connector that derives the key
    extid,      \* the two external identifiers, as character sequences
    kdone,      \* which of the two has been persisted
    kdir,       \* the directory / file stem each was persisted under
    \* ---- pacing: one connector issuing requests through its limiter ----
    lkind,      \* whose pacing code is running
    rate,       \* configured requests per second, in hundredths
    now,        \* time.time(), in milliseconds
    lastcall,   \* the limiter's record of its last call (_os_last_call)
    interval,   \* the limiter's minimum interval (_os_min_interval)
    lpc,        \* "new" | "ready" | "raised"
    reqs,       \* the times at which requests were issued
    slept,      \* how long each wait slept
    \* ---- fetching: one call of a fetch operation against a server ----
    fop,        \* the operation that is running
    furlpdf,    \* whether the requested URL ends in .pdf
    fretries,   \* the retries argument of the bioRxiv operations
    flimiter,   \* the RateLimiter handed to the bioRxiv operations
    flog,       \* the responses received, in order
    fpc,        \* "run" | "fallback" | "returned" | "raised" | "escaped"
    fres,       \* what the operation returned
    \* ---- format: one successful response put to a PDF test ----
    ckind,      \* the test that is applied
    ctype,      \* the Content-Type header of the response
    curlpdf,    \* whether the URL path ends in .pdf
    cmagic,     \* whether the body starts with %PDF
    cverdict,   \* "pending" | "accepted" | "rejected"
    \* ---- license: one license string put through a normalizer ----
    limpl,      \* whose normalizer runs
    lsample,    \* the license string as published, and what it designates
    lsep,       \* the separator its writer used ("keep": as published)
    lcase,      \* the case its writer used ("keep": as published)
    ltext,      \* the string handed to the normalizer
    ltag,       \* the tag it returned (<<>>: None)
    lnpc,       \* "new" | "done"
    \* ---- paging: one query paged through by a connector ----
    pconn,      \* the paginating connector
    pfeed,      \* arxiv.HAS_FEEDPARSER
    pmax,       \* pages (doaj, figshare) or max_results_per_query (arxiv)
    psize,      \* page_size (doaj, figshare) or per_page (arxiv)
    ppage,      \* pages answered so far (doaj, figshare: page)
    pseen,      \* records processed so far (arxiv: total_seen, equal to start)
    plast,      \* the last page answered: how many were asked for and came
    ppc,        \* "loop" | "backoff" | "done" | "raised"
    \* ---- runner: one invocation of run.main ----
    rdeclared,  \* the keys of sources.yaml, in file order
    rentry,     \* per key: "on" | "off" (enabled: false) | "null" (no mapping)
    ronly,      \* --only
    rskip,      \* --skip
    rrunners,   \* the DISPATCH keys whose module gave a run_from_config
    rlist,      \* run_list
    ridx,       \* position of the loop in run_list
    rstarted,   \* the sources whose runner was called, in call order
    rraised,    \* the sources whose runner raised an Exception
    rresults,   \* results
    rsummary,   \* the summary printed
    rpc,        \* "loop" | "running" | "done" | "aborted"
    \* ---- crawl: one run of govcrawl.run_from_config ----
    gseeds,     \* cfg["seeds"]
    gallow,     \* allow_domains, after the inference from the seeds
    gfiletypes, \* filetypes
    gmaxdepth,  \* max_depth
    gmaxper,    \* max_per_domain
    gseen,      \* seen
    gq,         \* q
    gsaved,     \* saved_per_domain
    genq,       \* per normalized URL: how often it was put in q
    gitems,     \* every item put in q so far
    ghosts,     \* the hosts a request went to, redirects included
    gpc,        \* "seed" | "crawl" | "done"
    \* ---- oai: one call of oai_pmh.oai_list_records ----
    otoken,     \* token (<<>>: None or empty)
    oreqs,      \* the resumptionToken parameter of each request sent (<<>>: none)
    oresps,     \* the answer to each request
    oyielded,   \* the records yielded so far, in order
    opc,        \* "loop" | "done"
    \* ---- biorxiv: the page loop of biorxiv.harvest_biorxiv ----
    blimit,     \* limit (-1: None)
    bcursor,    \* cursor
    bfetched,   \* fetched
    btotal,     \* total (-1: None)
    bknown,     \* the request whose answer gave total (0: none yet)
    breqs,      \* the cursor of each request sent
    bpc,        \* "loop" | "done" | "raised"
    \* ---- keyword: one record put through a connector's keyword filter ----
    qimpl,      \* whose filter runs
    qterms,     \* the configured terms (biorxiv keywords, oai_pmh queries)
    qfields,    \* the record's text fields, <<title, abstract>>
    qkept,      \* the buckets the record was persisted in
    qpc,        \* "new" | "done"
    \* ---- queries: a connector's loop over its queries and their pages ----
    yconn,      \* "figshare" | "zenodo" | "doaj"
    ynq,        \* len(queries)
    ywhite,     \* the ids whose licence passes allowed_by_license
    yq,         \* index of the query being iterated
    ypage,      \* the page requested next
    ypat,       \* doaj: the API pattern tried next
    ydisk,      \* the metadata files under out_root, one per id
    yreqs,      \* the <<query, page>> requests sent
    yfail,      \* the failed pages, each with the disk as it was then
    ypc,        \* "run" | "done"
    \* ---- norm: norm_url applied to a URL and to its own result ----
    zu,         \* the URL given
    zfirst,     \* norm_url(zu)
    zsecond,    \* norm_url(norm_url(zu))
    zraised,    \* a call raised ValueError
    zpc,        \* "new" | "once" | "twice"
    \* ---- dispatch: run_source calling one runner with its arguments ----
    dname,      \* the source
    dsection,   \* cfg_all[name], the source's section of sources.yaml
    dout,       \* args.out
    dcfg,       \* the dict the runner took its settings from
    droot,      \* the output root the runner settled on
    dran,       \* the harvest went past its enabled test
    dstatus,    \* the status run_source returned
    dpc,        \* "call" | "parsed" | "done"
    \* ---- json: utils/io.py write_json then read_json on one path ----
    jobj,       \* the object written
    jparent,    \* the directory of the path
    jdirs,      \* the directories that exist
    jhasfile,   \* the path holds a file
    jfile,      \* the JSON document in that file
    jread,      \* what read_json returned
    jraised,    \* a call raised
    jpc,        \* "new" | "written" | "done"
    \* ---- pool: workers sharing one limiter ----
    timpl,      \* "biorxiv" (RateLimiter.wait) | "arxiv" (throttle) | "core"
    tclock,     \* time.time()
    tlast,      \* _last / _os_last_call, shared by the workers
    twake,      \* per worker: the time its sleep ends
    twpc,       \* per worker: "idle" | "sleep" | "stamp" | "send" | "done"
    tsent,      \* the times at which requests were issued, in order
    \* ---- core: two fetch_one tasks of one query in the worker pool ----
    ucands,     \* the candidates dispatched, one per task
    uwpc,       \* per task: "get" | "pdf" | "meta" | "done"
    uwrites,    \* the <<path, task>> writes made
    \* ---- pmc: harvest_pmc over its queries, with its counters ----
    mterms,     \* queries
    mpermit,    \* permit_unlicensed_readonly
    mterm,      \* index of the query being harvested
    mids,       \* the ids of that query still to be fetched
    mfound,     \* how many ids the searches returned
    mcounts,    \* total_ids, saved, skipped_license, xml_fail, pdf_fail
    mwrites,    \* how many (metadata, payload) pairs were written
    mfiles,     \* the <<directory, pmcid>> pairs on disk
    mpc,        \* "search" | "ids" | "returned"
    \* ---- biorxiv: harvest_biorxiv handling the records of a collection ----
    vdl,        \* download_pdfs
    vn,         \* how many records of the collection were handled
    vmeta,      \* item directory -> metadata.json exists
    vpdf,       \* item directory -> paper.pdf exists
    vinfo,      \* item directory -> reason in paper.pdf.info.json, "absent" without one
    vreqs,      \* how many times try_download_pdf was called
    vlast,      \* what the handling of the last record did
    vpc,        \* "loop" | "done"
    \* ---- unpaywall: crossref_iter feeding harvest_unpaywall, one topic ----
    xrows,      \* max_rows, passed to crossref_iter as rows
    xpages,     \* how many Crossref pages were requested
    xseen,      \* crossref_iter's `seen`: items yielded so far
    xdois,      \* harvest_unpaywall's seen_dois
    xlookups,   \* DOI -> how many times unpaywall_lookup was called with it
    xerrors,    \* result.errors
    xpc         \* "fetch" | "done" | "raised"

storeVars == <<final, tmp, wpc, wimpl, wdata, wprev>>

harvVars == <<conn, whitelist, permit, attrs, run, idx, hpc, disk, jsonl, snap, last>>

keyVars == <<kconn, extid, kdone, kdir>>

paceVars == <<lkind, rate, now, lastcall, interval, lpc, reqs, slept>>

fetchVars == <<fop, furlpdf, fretries, flimiter, flog, fpc, fres>>

fmtVars == <<ckind, ctype, curlpdf, cmagic, cverdict>>

licVars == <<limpl, lsample, lsep, lcase, ltext, ltag, lnpc>>

pageVars == <<pconn, pfeed, pmax, psize, ppage, pseen, plast, ppc>>

runVars == <<rdeclared, rentry, ronly, rskip, rrunners, rlist, ridx, rstarted, rraised, rresults, rsummary, rpc>>

crawlVars == <<gseeds, gallow, gfiletypes, gmaxdepth, gmaxper, gseen, gq, gsaved, genq, gitems, ghosts, gpc>>

oaiVars == <<otoken, oreqs, oresps, oyielded, opc>>

bioVars == <<blimit, bcursor, bfetched, btotal, bknown, breqs, bpc>>

kwVars == <<qimpl, qterms, qfields, qkept, qpc>>

qryVars == <<yconn, ynq, ywhite, yq, ypage, ypat, ydisk, yreqs, yfail, ypc>>

normVars == <<zu, zfirst, zsecond, zraised, zpc>>

dispVars == <<dname, dsection, dout, dcfg, droot, dran, dstatus, dpc>>

jsonVars == <<jobj, jparent, jdirs, jhasfile, jfile, jread, jraised, jpc>>

poolVars == <<timpl, tclock, tlast, twake, twpc, tsent>>

coreVars == <<ucands, uwpc, uwrites>>

pmcVars == <<mterms, mpermit, mterm, mids, mfound, mcounts, mwrites, mfiles, mpc>>

sideVars == <<vdl, vn, vmeta, vpdf, vinfo, vreqs, vlast, vpc>>

xrefVars == <<xrows, xpages, xseen, xdois, xlookups, xerrors, xpc>>

vars == <<storeVars, harvVars, keyVars, paceVars, fetchVars, fmtVars, licVars, pageVars, runVars, crawlVars, oaiVars, bioVars, kwVars, qryVars, normVars, dispVars, jsonVars, poolVars, coreVars, pmcVars, sideVars, xrefVars>>

(***************************************************************************)
(* Bounds                                                                  *)
(***************************************************************************)
\* longest payload, in chunks, handed to a write
MaxChunks == 2
\* candidates a source returns for one query
NumCands == 2
\* invocations of the same harvest, one after the other
MaxRuns == 2
\* longest external identifier, in characters
MaxIdLen == 2
\* requests one connector issues in a run
MaxReqs == 3
\* the clock reading when the run starts, in milliseconds
Epoch == 1000000
\* largest retries argument handed to fetch_batch / try_download_pdf
MaxRetries == 3

(***************************************************************************)
(* Store: safe_write_json / safe_write_bytes                               *)
(***************************************************************************)
Bytes == {"a", "b"}

Absent == [exists |-> FALSE, bytes |-> <<>>]

File(b) == [exists |-> TRUE, bytes |-> b]

\* the non-empty contents a caller hands to a write, as a sequence of chunks
Payloads == UNION {[1..n -> Bytes] : n \in 1..MaxChunks}

\* writers that go through path.tmp and os.replace / Path.replace
AtomicImpls == {"arxiv", "biorxiv", "doaj", "zenodo", "figshare", "oai_pmh"}

\* writers that open the final path itself
DirectImpls == {"utils_net", "unpaywall", "pmc"}

StoreIdle ==
    /\ final = Absent
    /\ tmp = Absent
    /\ wpc = "idle"
    /\ wimpl = "none"
    /\ wdata = Absent
    /\ wprev = Absent

\* a store step leaves the other sub-machines alone
StoreFrame == UNCHANGED <<harvVars, keyVars, paceVars, fetchVars, fmtVars, licVars, pageVars, runVars, crawlVars, oaiVars, bioVars, kwVars, qryVars, normVars, dispVars, jsonVars, poolVars, coreVars, pmcVars, sideVars, xrefVars>>

\* open(tmp, "w"): creates or truncates path.tmp
safe_write_open_tmp(impl, d) ==
    /\ wpc = "idle"
    /\ impl \in AtomicImpls
    /\ wimpl' = impl
    /\ wdata' = File(d)
    /\ wprev' = final
    /\ tmp' = File(<<>>)
    /\ wpc' = "tmp_open"
    /\ UNCHANGED final
    /\ StoreFrame

\* f.write(chunk) into path.tmp
safe_write_chunk_tmp ==
    /\ wpc = "tmp_open"
    /\ Len(tmp.bytes) < Len(wdata.bytes)
    /\ tmp' = File(Append(tmp.bytes, wdata.bytes[Len(tmp.bytes) + 1]))
    /\ UNCHANGED <<final, wpc, wimpl, wdata, wprev>>
    /\ StoreFrame

\* close, then os.replace(tmp, path)
safe_write_replace ==
    /\ wpc = "tmp_open"
    /\ tmp = wdata
    /\ final' = tmp
    /\ tmp' = Absent
    /\ wpc' = "idle"
    /\ UNCHANGED <<wimpl, wdata, wprev>>
    /\ StoreFrame

\* path.write_bytes / path.write_text / open(path, "w"): truncates path itself
direct_write_open(impl, d) ==
    /\ wpc = "idle"
    /\ impl \in DirectImpls
    /\ wimpl' = impl
    /\ wdata' = File(d)
    /\ wprev' = final
    /\ final' = File(<<>>)
    /\ wpc' = "final_open"
    /\ UNCHANGED tmp
    /\ StoreFrame

direct_write_chunk ==
    /\ wpc = "final_open"
    /\ Len(final.bytes) < Len(wdata.bytes)
    /\ final' = File(Append(final.bytes, wdata.bytes[Len(final.bytes) + 1]))
    /\ UNCHANGED <<tmp, wpc, wimpl, wdata, wprev>>
    /\ StoreFrame

direct_write_close ==
    /\ wpc = "final_open"
    /\ final = wdata
    /\ wpc' = "idle"
    /\ UNCHANGED <<final, tmp, wimpl, wdata, wprev>>
    /\ StoreFrame

\* the process is killed in the middle of a write; the files stay as they are
Kill ==
    /\ wpc # "idle"
    /\ wpc' = "idle"
    /\ UNCHANGED <<final, tmp, wimpl, wdata, wprev>>
    /\ StoreFrame

StoreNext ==
    \/ \E impl \in AtomicImpls, d \in Payloads : safe_write_open_tmp(impl, d)
    \/ safe_write_chunk_tmp
    \/ safe_write_replace
    \/ \E impl \in DirectImpls, d \in Payloads : direct_write_open(impl, d)
    \/ direct_write_chunk
    \/ direct_write_close
    \/ Kill

(***************************************************************************)
(* Harvest: the per-candidate body of each connector's harvest loop        *)
(***************************************************************************)
Ids == 1..NumCands

Kinds == {"meta", "payload", "sidecar", "link"}

Connectors == {"doaj", "zenodo", "oai_pmh", "pmc", "unpaywall", "arxiv", "biorxiv"}

\* raw license texts a record may carry ("" = none given)
LicTexts == {"cc-by", "all rights reserved", ""}

\* payload URL of a record ("" = none)
Urls == {"", "http://h/doc", "http://h/doc.pdf"}

HasPdfExt(url) == url = "http://h/doc.pdf"

ArxivMinSize == 1024

NoFile == [exists |-> FALSE, body |-> "none", size |-> 0]

TextFile(what) == [exists |-> TRUE, body |-> what, size |-> 1]

\* what the server answers to a payload request; fmt "pdf" is a PDF body with
\* a PDF content-type, fmt "html" a landing or error page
Responses ==
    {[status |-> 200, fmt |-> "pdf", size |-> ArxivMinSize + 1],
     [status |-> 200, fmt |-> "pdf", size |-> ArxivMinSize],
     [status |-> 200, fmt |-> "html", size |-> ArxivMinSize + 1],
     [status |-> 200, fmt |-> "html", size |-> 0],
     [status |-> 404, fmt |-> "html", size |-> 0],
     [status |-> 503, fmt |-> "html", size |-> 0]}

PayloadFile(resp) == [exists |-> TRUE, body |-> resp.fmt, size |-> resp.size]

\* gate: what the license test said of the candidate ("none": not reached)
NoStep ==
    [id |-> 0, kept |-> FALSE, had |-> FALSE, req |-> FALSE, before |-> NoFile,
     gate |-> "none"]

EmptyDisk == [k \in Ids \X Kinds |-> NoFile]

EmptyLogs == [crossref |-> <<>>, unpaywall |-> <<>>]

Put(d, id, kind, file) == [d EXCEPT ![<<id, kind>>] = file]

\* the connectors that read a license whitelist from their configuration
Gated == {"doaj", "zenodo", "oai_pmh", "pmc"}

HarvIdle ==
    /\ conn = "none"
    /\ whitelist = {}
    /\ permit = FALSE
    /\ attrs = <<>>
    /\ run = 0
    /\ idx = 0
    /\ hpc = "idle"
    /\ disk = <<>>
    /\ jsonl = EmptyLogs
    /\ snap = <<>>
    /\ last = NoStep

HarvInit ==
    /\ conn \in Connectors
    /\ whitelist \in {{}, {"cc-by"}}
    /\ (whitelist # {} => conn \in Gated)
    /\ permit \in BOOLEAN
    /\ (permit => conn = "pmc")
    /\ attrs \in [Ids -> [lic : LicTexts, url : Urls, html : BOOLEAN]]
    /\ \A i \in Ids : attrs[i].html => conn = "doaj"
    /\ run = 1
    /\ idx = 1
    /\ hpc = "run"
    /\ disk = EmptyDisk
    /\ jsonl = EmptyLogs
    /\ snap = [disk |-> EmptyDisk, jsonl |-> EmptyLogs]
    /\ last = NoStep

\* the None a download function returns instead of bytes
NoBlob == [status |-> 0, fmt |-> "none", size |-> 0]

\* `if blob:` - None and b"" are falsy
Truthy(blob) == blob # NoBlob /\ blob.size > 0

\* doaj.allowed_by_license / zenodo.allowed_by_license on the license text
allowed_by_license(lic, wl) ==
    \/ wl = {}
    \/ lic \in wl

\* oai_pmh.norm_license on LicTexts
oai_norm_license(text) ==
    IF text = "cc-by" THEN "cc-by" ELSE "None"

\* oai_pmh.is_license_allowed with global_allow = None
is_license_allowed(text, wl) ==
    \/ wl = {}
    \/ (text # "" /\ oai_norm_license(text) \in wl)

\* doaj.download / zenodo.dl_file: raise_for_status, then r.content
dl_file(resp) == IF resp.status = 200 THEN resp ELSE NoBlob

\* oai_pmh.try_download_pdf, for a landing page without PDF links
oai_try_download_pdf(url, resp) ==
    IF resp.status = 200 /\ (resp.fmt = "pdf" \/ HasPdfExt(url)) THEN resp ELSE NoBlob

\* pmc.download_pdf: 404 -> next url, raise_for_status, "pdf" in ctype
pmc_download_pdf(resp) ==
    IF resp.status = 200 /\ resp.fmt = "pdf" THEN resp ELSE NoBlob

\* unpaywall.download_pdf: ok, and "pdf" in content-type or url ends in .pdf
unpaywall_download_pdf(url, resp) ==
    IF resp.status = 200 /\ (resp.fmt = "pdf" \/ HasPdfExt(url)) THEN resp ELSE NoBlob

\* unpaywall.pick_pdf_url: only a url ending in .pdf is picked
pick_pdf_url(url) == IF HasPdfExt(url) THEN url ELSE ""

\* arxiv.fetch_pdf_with_retries when every attempt gets the same answer:
\* saved iff a 200 with application/pdf
arxiv_fetch_ok(resp) == resp.status = 200 /\ resp.fmt = "pdf"

\* a harvest step leaves the other sub-machines alone
HarvFrame == UNCHANGED <<storeVars, keyVars, paceVars, fetchVars, fmtVars, licVars, pageVars, runVars, crawlVars, oaiVars, bioVars, kwVars, qryVars, normVars, dispVars, jsonVars, poolVars, coreVars, pmcVars, sideVars, xrefVars>>

Advance ==
    /\ idx' = idx + 1
    /\ UNCHANGED <<conn, whitelist, permit, attrs, run, hpc, snap>>
    /\ HarvFrame

Here(id) == hpc = "run" /\ idx = id /\ id \in Ids

\* doaj.run_from_config, body of `for rec in results`
doaj_process(id, resp) ==
    LET c == attrs[id]
        pfile == disk[<<id, "payload">>]
        allowed == allowed_by_license(c.lic, whitelist)
        d1 == IF disk[<<id, "meta">>].exists THEN disk
              ELSE Put(disk, id, "meta", TextFile("record"))
        fetch == c.url # "" /\ ~pfile.exists
        blob == dl_file(resp)
        d2 == IF fetch /\ Truthy(blob)
              THEN Put(Put(d1, id, "payload", PayloadFile(blob)),
                       id, "sidecar", TextFile("download_url"))
              ELSE d1
        d3 == IF c.html THEN Put(d2, id, "link", TextFile("url")) ELSE d2
    IN  /\ conn = "doaj" /\ Here(id)
        /\ disk' = IF allowed THEN d3 ELSE disk
        /\ last' = [id |-> id, kept |-> allowed, had |-> pfile.exists,
                    req |-> allowed /\ fetch, before |-> pfile,
                    gate |-> IF allowed THEN "allowed" ELSE "denied"]
        /\ UNCHANGED jsonl
        /\ Advance

\* zenodo.run_from_config, body of `for rec in iter_records(...)`, for a
\* record with at most one file
zenodo_process(id, resp) ==
    LET c == attrs[id]
        pfile == disk[<<id, "payload">>]
        allowed == allowed_by_license(c.lic, whitelist)
        d1 == IF disk[<<id, "meta">>].exists THEN disk
              ELSE Put(disk, id, "meta", TextFile("record"))
        fetch == c.url # "" /\ ~(pfile.exists /\ pfile.size > 0)
        blob == dl_file(resp)
        d2 == IF fetch /\ Truthy(blob)
              THEN Put(Put(d1, id, "payload", PayloadFile(blob)),
                       id, "sidecar", TextFile("download"))
              ELSE d1
    IN  /\ conn = "zenodo" /\ Here(id)
        /\ disk' = IF allowed THEN d2 ELSE disk
        /\ last' = [id |-> id, kept |-> allowed, had |-> pfile.exists,
                    req |-> allowed /\ fetch, before |-> pfile,
                    gate |-> IF allowed THEN "allowed" ELSE "denied"]
        /\ UNCHANGED jsonl
        /\ Advance

\* oai_pmh.run_from_config, body of `for header, metadata in oai_list_records`,
\* without configured queries and with at most one http identifier
oai_process(id, resp) ==
    LET c == attrs[id]
        pfile == disk[<<id, "payload">>]
        allowed == is_license_allowed(c.lic, whitelist)
        d1 == Put(disk, id, "meta", TextFile("record"))
        fetch == c.url # ""
        blob == oai_try_download_pdf(c.url, resp)
        d2 == IF fetch /\ Truthy(blob)
              THEN Put(d1, id, "payload", PayloadFile(blob))
              ELSE d1
    IN  /\ conn = "oai_pmh" /\ Here(id)
        /\ disk' = IF allowed THEN d2 ELSE disk
        /\ last' = [id |-> id, kept |-> allowed, had |-> pfile.exists,
                    req |-> allowed /\ fetch, before |-> pfile,
                    gate |-> IF allowed THEN "allowed" ELSE "denied"]
        /\ UNCHANGED jsonl
        /\ Advance

\* pmc.harvest_pmc (lines 290-377), body of `for pmcid in ids`
pmc_process(id, xmlOk, resp) ==
    LET c == attrs[id]
        pfile == disk[<<id, "payload">>]
        norm_tag == IF c.lic = "cc-by" THEN "cc-by" ELSE "None"
        keep == \/ (norm_tag # "None" /\ norm_tag \in whitelist)
                \/ (permit /\ norm_tag = "None")
        pdf_bytes == pmc_download_pdf(resp)
        d1 == IF Truthy(pdf_bytes)
              THEN Put(Put(disk, id, "meta", TextFile("record")),
                       id, "payload", PayloadFile(pdf_bytes))
              ELSE disk
    IN  /\ conn = "pmc" /\ Here(id)
        /\ disk' = IF xmlOk /\ keep THEN d1 ELSE disk
        /\ last' = [id |-> id, kept |-> xmlOk /\ keep, had |-> pfile.exists,
                    req |-> xmlOk /\ keep, before |-> pfile,
                    gate |-> IF ~xmlOk THEN "none"
                             ELSE IF keep THEN "allowed" ELSE "denied"]
        /\ UNCHANGED jsonl
        /\ Advance

\* unpaywall.harvest_unpaywall, body of `for item in crossref_iter(...)`, with
\* save_pdfs and without allow_non_oa; lookup is what unpaywall_lookup gives:
\* "error" (raises), "none" (404), "oa" or "closed" (the record's is_oa)
unpaywall_process(id, lookup, resp) ==
    LET c == attrs[id]
        pfile == disk[<<id, "payload">>]
        url_pdf == IF lookup = "oa" THEN pick_pdf_url(c.url) ELSE ""
        found == lookup \in {"oa", "closed"}
        data == unpaywall_download_pdf(url_pdf, resp)
        d1 == Put(disk, id, "meta", TextFile("summary"))
        d2 == IF url_pdf # "" /\ Truthy(data)
              THEN Put(d1, id, "payload", PayloadFile(data))
              ELSE d1
    IN  /\ conn = "unpaywall" /\ Here(id)
        /\ jsonl' = [crossref |-> Append(jsonl.crossref, id),
                     unpaywall |-> IF lookup = "error" THEN jsonl.unpaywall
                                   ELSE Append(jsonl.unpaywall, id)]
        /\ disk' = IF found THEN d2 ELSE disk
        /\ last' = [id |-> id, kept |-> found, had |-> pfile.exists,
                    req |-> found /\ url_pdf # "", before |-> pfile,
                    gate |-> "none"]
        /\ Advance

\* the metadata says ok whatever the download did
pdf_status_always_ok(ok) == "record+ok"

\* arxiv.harvest_query: meta["pdf_status"] after fetch_pdf_with_retries
pdf_status(ok) == IF ok THEN "record+ok" ELSE "record+pending"

\* arxiv.harvest_query, body of `for e in entries`
arxiv_process(id, resp) ==
    LET c == attrs[id]
        pfile == disk[<<id, "payload">>]
        present == pfile.exists /\ pfile.size > ArxivMinSize
        fetch == c.url # "" /\ ~present
        saved == fetch /\ arxiv_fetch_ok(resp)
        ok == c.url # "" /\ (present \/ saved)
        d1 == IF saved THEN Put(disk, id, "payload", PayloadFile(resp)) ELSE disk
        d2 == Put(d1, id, "meta",
                  TextFile(IF c.url = "" THEN "record" ELSE pdf_status(ok)))
    IN  /\ conn = "arxiv" /\ Here(id)
        /\ disk' = d2
        /\ last' = [id |-> id, kept |-> TRUE, had |-> pfile.exists,
                    req |-> fetch, before |-> pfile, gate |-> "none"]
        /\ UNCHANGED jsonl
        /\ Advance

\* biorxiv.harvest_biorxiv: `limiter = RateLimiter(rate)` raises TypeError,
\* the class defines _init_, not __init__, and takes no argument
biorxiv_harvest ==
    /\ conn = "biorxiv" /\ hpc = "run"
    /\ hpc' = "raised"
    /\ UNCHANGED <<conn, whitelist, permit, attrs, run, idx, disk, jsonl, snap, last>>
    /\ HarvFrame

\* the harvest function returns; it may be invoked again on the same tree
harvest_return ==
    /\ hpc = "run" /\ idx = NumCands + 1
    /\ hpc' = "done"
    /\ UNCHANGED <<conn, whitelist, permit, attrs, run, idx, disk, jsonl, snap, last>>
    /\ HarvFrame

harvest_again ==
    /\ hpc = "done" /\ run < MaxRuns
    /\ run' = run + 1
    /\ idx' = 1
    /\ hpc' = "run"
    /\ snap' = [disk |-> disk, jsonl |-> jsonl]
    /\ last' = NoStep
    /\ UNCHANGED <<conn, whitelist, permit, attrs, disk, jsonl>>
    /\ HarvFrame

Next ==
    \/ \E id \in Ids, resp \in Responses : doaj_process(id, resp)
    \/ \E id \in Ids, resp \in Responses : zenodo_process(id, resp)
    \/ \E id \in Ids, resp \in Responses : oai_process(id, resp)
    \/ \E id \in Ids, xmlOk \in BOOLEAN, resp \in Responses : pmc_process(id, xmlOk, resp)
    \/ \E id \in Ids, lookup \in {"error", "none", "oa", "closed"}, resp \in Responses :
          unpaywall_process(id, lookup, resp)
    \/ \E id \in Ids, resp \in Responses : arxiv_process(id, resp)
    \/ biorxiv_harvest
    \/ harvest_return
    \/ harvest_again

\* the spec's format check on a stored payload: PDF by content-type or magic
\* bytes, or fetched from a URL with the .pdf extension
FormatOk(id) == disk[<<id, "payload">>].body = "pdf" \/ HasPdfExt(attrs[id].url)

\* the spec's license gate on the candidate
GateOk(id) == whitelist = {} \/ attrs[id].lic \in whitelist

\* C2: a payload file exists on disk for a candidate only if the fetched
\* response passed the format check and the candidate's license passed the
\* whitelist gate (or the gate is disabled); stated for the connectors that
\* store the payload as a PDF (doaj fulltext.pdf, biorxiv paper.pdf).
PayloadOnlyIfFormatAndLicense ==
    conn \in {"doaj", "biorxiv"} =>
        \A id \in Ids : disk[<<id, "payload">>].exists => FormatOk(id) /\ GateOk(id)

\* C3: once the harvest has processed a candidate, its metadata file exists
\* on disk, whatever the license gate decided and whether or not a payload
\* was available or downloaded (doaj, oai_pmh, pmc).
MetadataAlwaysWritten ==
    (conn \in {"doaj", "oai_pmh", "pmc"} /\ last.id # 0) =>
        disk[<<last.id, "meta">>].exists

\* C4: a second run over the same candidates leaves the artifact tree as the
\* first run left it: no record is appended a second time and no file of the
\* first run is lost (doaj, zenodo, unpaywall).
SecondRunIdempotent ==
    (conn \in {"doaj", "zenodo", "unpaywall"} /\ hpc = "done" /\ run > 1) =>
        /\ jsonl = snap.jsonl
        /\ \A k \in Ids \X Kinds : snap.disk[k].exists => disk[k].exists

\* C5: when the payload file is already on disk as a candidate is processed,
\* no request is issued for that payload and the file is left unchanged
\* (arxiv, pmc, oai_pmh).
SkipFetchIfPresent ==
    (conn \in {"arxiv", "pmc", "oai_pmh"} /\ last.id # 0 /\ last.had) =>
        ~last.req /\ disk[<<last.id, "payload">>] = last.before

(***************************************************************************)
(* Keys: external_id -> directory name / file stem                         *)
(***************************************************************************)
\* characters of an identifier: a lower and an upper case letter, the path
\* separator, a hyphen and a blank
Chars == {"a", "B", "/", "-", " "}

Idents == UNION {[1..n -> Chars] : n \in 1..MaxIdLen}

OaiMaxLen == 120

SlugMaxLen == 80

Lower(c) == IF c = "B" THEN "b" ELSE c

IsSpace(c) == c = " "

Take(s, n) == IF Len(s) > n THEN SubSeq(s, 1, n) ELSE s

RECURSIVE LStrip(_)
LStrip(s) == IF s # <<>> /\ IsSpace(Head(s)) THEN LStrip(Tail(s)) ELSE s

RECURSIVE RStrip(_)
RStrip(s) ==
    IF s # <<>> /\ IsSpace(s[Len(s)]) THEN RStrip(SubSeq(s, 1, Len(s) - 1)) ELSE s

Strip(s) == RStrip(LStrip(s))

\* re.sub(r"\s+", r, s): every run of whitespace becomes r
RECURSIVE SubSpaces(_, _)
SubSpaces(s, r) ==
    IF s = <<>> THEN <<>>
    ELSE IF IsSpace(Head(s)) THEN r \o SubSpaces(LStrip(s), r)
    ELSE <<Head(s)>> \o SubSpaces(Tail(s), r)

\* oai_pmh.SAFE_CHARS = "-_.() " + letters + digits
InSafeChars(c) == c \in {"a", "B", "b", "-", " ", "_", "."}

\* oai_pmh.sanitize
sanitize(s) ==
    LET kept == Strip(SelectSeq(s, InSafeChars))
        t == Take(SubSpaces(kept, <<"_">>), OaiMaxLen)
    IN  IF s = <<>> \/ t = <<>> THEN <<"n", "a">> ELSE t

\* [^\w\s-] is removed by unpaywall.slugify
IsWordSpaceHyphen(c) == c \in {"a", "B", "b", "_", " ", "-"}

\* [\s_-] is removed next
IsSeparator(c) == c \in {" ", "_", "-"}

NotSeparator(c) == ~IsSeparator(c)

\* unpaywall.slugify
unpaywall_slugify(s) ==
    LET l == [i \in 1..Len(s) |-> Lower(s[i])]
        w == SelectSeq(l, IsWordSpaceHyphen)
        t == SelectSeq(w, NotSeparator)
        u == Take(t, SlugMaxLen)
    IN  IF u = <<>> THEN <<"i", "t", "e", "m">> ELSE u

\* [A-Za-z0-9 _.\-] is kept by arxiv.slugify
IsArxivSafe(c) == c \in {"a", "B", "b", " ", "_", ".", "-"}

SlashToHyphen(c) == IF c = "/" THEN "-" ELSE c

BlankToUnderscore(c) == IF c = " " THEN "_" ELSE c

\* arxiv.slugify
arxiv_slugify(s) ==
    LET t1 == Strip(SubSpaces(s, <<" ">>))
        t2 == [i \in 1..Len(t1) |-> SlashToHyphen(t1[i])]
        t3 == SelectSeq(t2, IsArxivSafe)
        t4 == Take([i \in 1..Len(t3) |-> BlankToUnderscore(t3[i])], SlugMaxLen)
    IN  IF t4 = <<>> THEN <<"u", "n", "t", "i", "t", "l", "e", "d">> ELSE t4

\* raw_id.rsplit("/", 1)[-1]
RECURSIVE LastSegment(_)
LastSegment(s) ==
    IF \E i \in 1..Len(s) : s[i] = "/"
    THEN LastSegment(Tail(s))
    ELSE s

KeyConnectors == {"oai_pmh", "unpaywall", "arxiv"}

\* the key a connector persists a record under; "skip" when it drops it
KeyOf(c, id) ==
    IF c = "oai_pmh" THEN sanitize(id)
    ELSE IF c = "unpaywall" THEN unpaywall_slugify(id)
    ELSE IF LastSegment(id) = <<>> THEN <<"skip">>
    ELSE arxiv_slugify(LastSegment(id))

KeyIdle ==
    /\ kconn = "none"
    /\ extid = <<>>
    /\ kdone = {}
    /\ kdir = <<>>

KeyStart ==
    /\ kconn \in KeyConnectors
    /\ extid \in [1..2 -> Idents]
    /\ extid[1] # extid[2]
    /\ kdone = {}
    /\ kdir = [i \in 1..2 |-> <<>>]

KeyFrame == UNCHANGED <<storeVars, harvVars, paceVars, fetchVars, fmtVars, licVars, pageVars, runVars, crawlVars, oaiVars, bioVars, kwVars, qryVars, normVars, dispVars, jsonVars, poolVars, coreVars, pmcVars, sideVars, xrefVars>>

\* the harvest loop persists record i under the key derived from its id
persist(i) ==
    /\ i \notin kdone
    /\ KeyOf(kconn, extid[i]) # <<"skip">>
    /\ kdir' = [kdir EXCEPT ![i] = KeyOf(kconn, extid[i])]
    /\ kdone' = kdone \cup {i}
    /\ UNCHANGED <<kconn, extid>>
    /\ KeyFrame

\* arxiv.harvest_query: an entry whose id has no trailing segment is skipped
skip_malformed(i) ==
    /\ i \notin kdone
    /\ KeyOf(kconn, extid[i]) = <<"skip">>
    /\ kdone' = kdone \cup {i}
    /\ UNCHANGED <<kconn, extid, kdir>>
    /\ KeyFrame

KeyNext ==
    \/ \E i \in 1..2 : persist(i)
    \/ \E i \in 1..2 : skip_malformed(i)

\* C6: two candidates of one source with different external identifiers are
\* never persisted under the same directory or file path.
DistinctIdsDistinctKeys ==
    (kdir # <<>> /\ kdir[1] # <<>> /\ kdir[2] # <<>>) => kdir[1] # kdir[2]

(***************************************************************************)
(* Pacing: throttle, RateLimiter, sleep_rate and the unpaced requests of   *)
(* harvest_core                                                            *)
(***************************************************************************)
Pacers == {"arxiv", "biorxiv", "sleep_rate", "core"}

\* requests per second, in hundredths: -1, 0, 1 and 2 per second
Rates == {-100, 0, 100, 200}

\* time that passes between two calls while the connector does other work
Elapses == {250, 1000}

Max(a, b) == IF a > b THEN a ELSE b

\* 1.0 / r seconds, in milliseconds, for r in hundredths per second
Period(r) == 100000 \div r

PaceIdle ==
    /\ lkind = "none"
    /\ rate = 0
    /\ now = 0
    /\ lastcall = 0
    /\ interval = 0
    /\ lpc = "idle"
    /\ reqs = <<>>
    /\ slept = <<>>

PaceStart ==
    /\ lkind \in Pacers
    /\ rate \in Rates
    /\ now = Epoch
    /\ lastcall = 0
    /\ interval = 0
    /\ lpc = "new"
    /\ reqs = <<>>
    /\ slept = <<>>

PaceFrame == UNCHANGED <<storeVars, harvVars, keyVars, fetchVars, fmtVars, licVars, pageVars, runVars, crawlVars, oaiVars, bioVars, kwVars, qryVars, normVars, dispVars, jsonVars, poolVars, coreVars, pmcVars, sideVars, xrefVars>>

\* arxiv.mk_session: _os_last_call = 0.0, _os_min_interval = 1/max(0.01, rate)
arxiv_mk_session ==
    /\ lkind = "arxiv" /\ lpc = "new"
    /\ lastcall' = 0
    /\ interval' = Period(Max(1, rate))
    /\ lpc' = "ready"
    /\ UNCHANGED <<lkind, rate, now, reqs, slept>>
    /\ PaceFrame

\* arxiv.throttle followed by sess.get
arxiv_throttle_get ==
    /\ lkind = "arxiv" /\ lpc = "ready" /\ Len(reqs) < MaxReqs
    /\ LET wait == interval - (now - lastcall)
           woke == IF wait > 0 THEN now + wait ELSE now
       IN  /\ now' = woke
           /\ lastcall' = woke
           /\ reqs' = Append(reqs, woke)
           /\ slept' = Append(slept, woke - now)
    /\ UNCHANGED <<lkind, rate, interval, lpc>>
    /\ PaceFrame

\* biorxiv: RateLimiter(rate); the class defines _init_, not __init__, so the
\* constructor call with an argument raises TypeError
RateLimiter_construct ==
    /\ lkind = "biorxiv" /\ lpc = "new"
    /\ lpc' = "raised"
    /\ UNCHANGED <<lkind, rate, now, lastcall, interval, reqs, slept>>
    /\ PaceFrame

\* utils_net.sleep_rate(rate) followed by a request
sleep_rate_get ==
    /\ lkind = "sleep_rate" /\ Len(reqs) < MaxReqs
    /\ LET nap == IF rate # 0 /\ rate > 0 THEN Period(rate) ELSE 0
       IN  /\ now' = now + nap
           /\ reqs' = Append(reqs, now + nap)
           /\ slept' = Append(slept, nap)
    /\ UNCHANGED <<lkind, rate, lastcall, interval, lpc>>
    /\ PaceFrame

\* core_api.harvest_core: s.get for a page or, from the pool, a download
core_get ==
    /\ lkind = "core" /\ Len(reqs) < MaxReqs
    /\ reqs' = Append(reqs, now)
    /\ UNCHANGED <<lkind, rate, now, lastcall, interval, lpc, slept>>
    /\ PaceFrame

\* time passes between two calls
elapse(d) ==
    /\ lpc # "raised"
    /\ reqs # <<>> /\ Len(reqs) < MaxReqs
    /\ now = reqs[Len(reqs)]
    /\ now' = now + d
    /\ UNCHANGED <<lkind, rate, lastcall, interval, lpc, reqs, slept>>
    /\ PaceFrame

PaceNext ==
    \/ arxiv_mk_session
    \/ arxiv_throttle_get
    \/ RateLimiter_construct
    \/ sleep_rate_get
    \/ core_get
    \/ \E d \in Elapses : elapse(d)

\* C7: with rate > 0, at least 1/rate seconds lie between any two consecutive
\* requests of one connector.
ConsecutiveRequestsSpaced ==
    (lkind \in {"arxiv", "biorxiv", "core"} /\ rate > 0) =>
        \A i \in 2..Len(reqs) : reqs[i] - reqs[i - 1] >= Period(rate)

\* C8: with rate <= 0 no wait ever sleeps.
NonPositiveRateNeverSleeps ==
    (lkind \in {"arxiv", "biorxiv", "sleep_rate"} /\ rate <= 0) =>
        \A i \in 1..Len(slept) : slept[i] = 0

(***************************************************************************)
(* Fetching: the retry loops around one request                            *)
(***************************************************************************)
FetchOps ==
    {"unpaywall_lookup", "download_pdf", "fetch_batch", "session_get",
     "try_download_pdf", "fetch_pdf_with_retries", "crossref_iter", "core_page"}

\* the operations that request a page of results for a harvest loop
PageOps == {"fetch_batch", "crossref_iter", "core_page"}

BiorxivOps == {"fetch_batch", "try_download_pdf"}

\* what one attempt can be answered with; 0 stands for no answer at all
\* (Timeout / ConnectionError)
Statuses == {0, 200, 403, 404, 429, 503}

\* pdf: the answer is a PDF by content type or leading bytes
FResponses ==
    {r \in [status : Statuses, pdf : BOOLEAN] : r.pdf => r.status = 200}

\* requests.Response.ok
Ok(r) == r.status >= 200 /\ r.status < 400

\* unpaywall.py: for i in range(4)
UnpaywallRetries == 4

\* utils_net.mk_session: Retry(total=5, ...)
SessionRetryTotal == 5

\* utils_net.mk_session: status_forcelist
RetryForcelist == {429, 500, 502, 503, 504}

\* arxiv.RETRY_STATUS
RETRY_STATUS == {500, 502, 503, 504, 520, 522, 524}

\* arxiv.fetch_pdf_with_retries: max_retries
ArxivMaxRetries == 6

NoRes == [tag |-> "pending", of |-> 0]

\* the call returned; of names the attempt whose body was handed back
Returned(tag, k) == [pc |-> "returned", res |-> [tag |-> tag, of |-> k]]

Raised == [pc |-> "raised", res |-> NoRes]

Going == [pc |-> "run", res |-> NoRes]

FetchIdle ==
    /\ fop = "none"
    /\ furlpdf = FALSE
    /\ fretries = 0
    /\ flimiter = "none"
    /\ flog = <<>>
    /\ fpc = "idle"
    /\ fres = NoRes

FetchStart ==
    /\ fop \in FetchOps
    /\ furlpdf \in BOOLEAN
    /\ furlpdf => fop \in {"download_pdf", "try_download_pdf"}
    /\ fretries \in 0..MaxRetries
    /\ fretries # 0 <=> fop \in BiorxivOps
    /\ flimiter \in {"none", "bare", "ready"}
    /\ flimiter # "none" <=> fop \in BiorxivOps
    /\ flog = <<>>
    /\ fpc = "run"
    /\ fres = NoRes

FetchFrame == UNCHANGED <<storeVars, harvVars, keyVars, paceVars, fmtVars, licVars, pageVars, runVars, crawlVars, oaiVars, bioVars, kwVars, qryVars, normVars, dispVars, jsonVars, poolVars, coreVars, pmcVars, sideVars, xrefVars>>

\* one request was answered with resp and the operation went on to out
Attempt(resp, u, out) ==
    /\ flog' = Append(flog, [status |-> resp.status, pdf |-> resp.pdf, url |-> u])
    /\ fpc' = out.pc
    /\ fres' = out.res
    /\ UNCHANGED <<fop, furlpdf, fretries, flimiter>>
    /\ FetchFrame

\* a faulty unpaywall_lookup: the answer of the first request is the one
\* judged, whatever the retries brought
lookup_finish_first_answer(r, k) ==
    IF k = 1 /\ Ok(r) THEN Returned("payload", k) ELSE Raised

\* unpaywall_lookup: r.raise_for_status(); return r.json()
lookup_finish(r, k) == IF Ok(r) THEN Returned("payload", k) ELSE Raised

\* unpaywall_lookup, request k of the call
lookup_step(r, k) ==
    IF r.status = 0 THEN Raised
    ELSE IF k = 1
    THEN IF r.status = 404 THEN Returned("none", 0)
         ELSE IF r.status >= 500 THEN Going
         ELSE lookup_finish(r, k)
    ELSE IF Ok(r) \/ k = UnpaywallRetries + 1 THEN lookup_finish(r, k)
    ELSE Going

unpaywall_lookup(resp) ==
    /\ fop = "unpaywall_lookup" /\ fpc = "run"
    /\ Attempt(resp, "main", lookup_step(resp, Len(flog) + 1))

\* unpaywall.download_pdf after its loop: the ok and content-type checks
pdf_finish(r, k, urlpdf) ==
    IF ~Ok(r) THEN Returned("none", 0)
    ELSE IF ~r.pdf /\ ~urlpdf THEN Returned("none", 0)
    ELSE Returned("payload", k)

\* unpaywall.download_pdf, request k of the call
download_step(r, k, urlpdf) ==
    IF r.status = 0 THEN Raised
    ELSE IF k = 1
    THEN IF r.status >= 500 THEN Going ELSE pdf_finish(r, k, urlpdf)
    ELSE IF Ok(r) \/ k = UnpaywallRetries + 1 THEN pdf_finish(r, k, urlpdf)
    ELSE Going

download_pdf(resp) ==
    /\ fop = "download_pdf" /\ fpc = "run"
    /\ Attempt(resp, "main", download_step(resp, Len(flog) + 1, furlpdf))

\* rate.wait() on a RateLimiter built without arguments: delay was never
\* set, AttributeError leaves the operation before any request
rate_wait_unset ==
    /\ fop \in BiorxivOps /\ fpc = "run" /\ flimiter = "bare"
    /\ fpc' = "raised"
    /\ UNCHANGED <<fop, furlpdf, fretries, flimiter, flog, fres>>
    /\ FetchFrame

\* biorxiv.fetch_batch, attempt k of retries
fetch_batch_step(r, k, retries) ==
    IF r.status = 200 THEN Returned("payload", k)
    ELSE IF r.status = 0 THEN (IF k = retries THEN Raised ELSE Going)
    ELSE IF r.status >= 400 /\ r.status < 500 THEN Returned("empty", 0)
    ELSE IF k = retries THEN Raised
    ELSE Going

fetch_batch(resp) ==
    /\ fop = "fetch_batch" /\ fpc = "run" /\ flimiter = "ready"
    /\ Attempt(resp, "main", fetch_batch_step(resp, Len(flog) + 1, fretries))

\* a GET through utils_net.mk_session: urllib3 repeats the request while the
\* answer is on the forcelist or missing, total times at most
session_get_step(r, k) ==
    IF r.status = 0 \/ r.status \in RetryForcelist
    THEN IF k = SessionRetryTotal + 1 THEN Raised ELSE Going
    ELSE IF r.status = 200 THEN Returned("payload", k)
    ELSE Returned("response", k)

session_get(resp) ==
    /\ fop = "session_get" /\ fpc = "run"
    /\ Attempt(resp, "main", session_get_step(resp, Len(flog) + 1))

\* biorxiv.try_download_pdf, attempt k of retries
try_download_step(r, k, retries, urlpdf) ==
    IF r.status = 404 THEN Returned("none", 0)
    ELSE IF r.status = 0 \/ ~Ok(r)
    THEN IF k = retries THEN Returned("none", 0) ELSE Going
    ELSE IF r.pdf \/ urlpdf THEN Returned("payload", k)
    ELSE Returned("none", 0)

try_download_pdf(resp) ==
    /\ fop = "try_download_pdf" /\ fpc = "run" /\ flimiter = "ready"
    /\ Attempt(resp, "main",
               try_download_step(resp, Len(flog) + 1, fretries, furlpdf))

\* arxiv.fetch_pdf_with_retries: the loop goes on, or falls out to the
\* e-print fallback after max_retries attempts
arxiv_next_attempt(k) ==
    IF k = ArxivMaxRetries THEN [pc |-> "fallback", res |-> NoRes] ELSE Going

\* arxiv.fetch_pdf_with_retries, attempt k; r is what sess.get handed back
arxiv_step(r, k) ==
    IF r.status = 0 \/ r.status \in RETRY_STATUS THEN arxiv_next_attempt(k)
    ELSE IF r.status = 200
    THEN IF r.pdf THEN Returned("saved", k) ELSE arxiv_next_attempt(k)
    ELSE IF r.status = 404 THEN Returned("failed", 0)
    ELSE arxiv_next_attempt(k)

fetch_pdf_with_retries(resp) ==
    /\ fop = "fetch_pdf_with_retries" /\ fpc = "run"
    /\ Attempt(resp, "main", arxiv_step(resp, Len(flog) + 1))

\* arxiv.fetch_pdf_with_retries: one last request, to the e-print URL
eprint_fallback(resp) ==
    /\ fop = "fetch_pdf_with_retries" /\ fpc = "fallback"
    /\ Attempt(resp, "eprint",
               IF resp.status = 200 /\ resp.pdf
               THEN Returned("saved", Len(flog) + 1)
               ELSE Returned("failed", 0))

\* unpaywall.crossref_iter: r.raise_for_status(); data = r.json()
crossref_finish(r, k) == IF Ok(r) THEN Returned("payload", k) ELSE Raised

\* unpaywall.crossref_iter, request k for one cursor
crossref_step(r, k) ==
    IF r.status = 0 THEN Raised
    ELSE IF k = 1
    THEN IF r.status >= 500 THEN Going ELSE crossref_finish(r, k)
    ELSE IF Ok(r) \/ k = UnpaywallRetries + 1 THEN crossref_finish(r, k)
    ELSE Going

crossref_iter(resp) ==
    /\ fop = "crossref_iter" /\ fpc = "run"
    /\ Attempt(resp, "main", crossref_step(resp, Len(flog) + 1))

\* core_api.harvest_core, a page request through utils_net.mk_session:
\* any answer other than 200 ends the paging of the query
core_page_step(r, k) ==
    IF session_get_step(r, k) = Returned("response", k)
    THEN Returned("stopped", k)
    ELSE session_get_step(r, k)

core_page(resp) ==
    /\ fop = "core_page" /\ fpc = "run"
    /\ Attempt(resp, "main", core_page_step(resp, Len(flog) + 1))

\* harvest_biorxiv, harvest_unpaywall and harvest_core call their page
\* request outside any try: what it raises leaves the harvest function
exception_leaves_harvest ==
    /\ fop \in PageOps /\ fpc = "raised"
    /\ fpc' = "escaped"
    /\ UNCHANGED <<fop, furlpdf, fretries, flimiter, flog, fres>>
    /\ FetchFrame

FetchNext ==
    \/ \E resp \in FResponses : unpaywall_lookup(resp)
    \/ \E resp \in FResponses : download_pdf(resp)
    \/ rate_wait_unset
    \/ \E resp \in FResponses : fetch_batch(resp)
    \/ \E resp \in FResponses : session_get(resp)
    \/ \E resp \in FResponses : try_download_pdf(resp)
    \/ \E resp \in FResponses : fetch_pdf_with_retries(resp)
    \/ \E resp \in FResponses : eprint_fallback(resp)
    \/ \E resp \in FResponses : crossref_iter(resp)
    \/ \E resp \in FResponses : core_page(resp)
    \/ exception_leaves_harvest

\* attempt i was answered 503 and the next attempt 200 with the document
\* the operation asks for
FailedThenServed(i) ==
    /\ i \in 1..(Len(flog) - 1)
    /\ flog[i].status = 503
    /\ flog[i + 1].status = 200
    /\ fop = "download_pdf" => flog[i + 1].pdf \/ furlpdf

\* C9: when an attempt is answered 503 and the next attempt 200, the caller
\* sees no failure and the operation returns the body of that 200 answer.
TransientFailureRetried ==
    fop \in {"unpaywall_lookup", "download_pdf", "fetch_batch", "session_get"} =>
        \A i \in 1..Len(flog) : FailedThenServed(i) =>
            fpc = "returned" /\ fres = [tag |-> "payload", of |-> i + 1]

\* a 503 was answered, the retry got the document, and the call returned it
TransientFailureRetriedWitness ==
    /\ fop \in {"unpaywall_lookup", "download_pdf", "fetch_batch", "session_get"}
    /\ fpc = "returned"
    /\ \E i \in 1..Len(flog) : FailedThenServed(i)

\* C10: after an answer with a 4xx status other than 429 the operation sends
\* no further request for the same URL.
NoRetryAfterClientError ==
    fop = "fetch_pdf_with_retries" =>
        \A i \in 1..Len(flog) : \A j \in 1..Len(flog) :
            (i < j /\ flog[i].status \in {403, 404}) => flog[j].url # flog[i].url

\* the requests a page operation may send for one page
MaxAttempts ==
    IF fop = "fetch_batch" THEN fretries
    ELSE IF fop = "crossref_iter" THEN UnpaywallRetries + 1
    ELSE SessionRetryTotal + 1

\* C11: a 429 answer to a page request is retried while attempts are left,
\* and is never taken for an empty page or the end of the results.
TooManyRequestsRetried ==
    fop = "crossref_iter" =>
        \A i \in 1..Len(flog) :
            (flog[i].status = 429 /\ i < MaxAttempts) => (Len(flog) > i \/ fpc = "run")

\* the page request failed on every attempt with a 5xx answer or no answer
PersistentTransientFailure ==
    /\ Len(flog) = MaxAttempts
    /\ \A i \in 1..Len(flog) : flog[i].status \in {0, 503}

\* C12: when a transient failure of a page request lasts until the retries
\* are used up, no exception leaves the connector's harvest function.
TransientFailureAbsorbed ==
    (fop \in {"crossref_iter", "core_page"} /\ PersistentTransientFailure) =>
        fpc # "escaped"

(***************************************************************************)
(* Format: is a successful response a PDF payload                          *)
(***************************************************************************)
\* Content-Type headers, lower-cased ("" = header absent)
MediaTypes ==
    {"application/pdf", "application/x-pdf", "application/pdf; charset=binary",
     "binary/octet-stream", "application/octet-stream", "text/html", ""}

\* "pdf" in ctype
ContainsPdf(ct) ==
    ct \in {"application/pdf", "application/x-pdf", "application/pdf; charset=binary"}

\* any(x in ct for x in PDF_CT), PDF_CT = application/pdf, application/x-pdf,
\* binary/octet-stream
ContainsPdfCt(ct) ==
    ct \in {"application/pdf", "application/x-pdf",
            "application/pdf; charset=binary", "binary/octet-stream"}

\* utils_net.is_pdf_response
is_pdf_response(ct) == ContainsPdfCt(ct)

\* biorxiv.is_probably_pdf_response
is_probably_pdf_response(ct, urlpdf) == ContainsPdf(ct) \/ urlpdf

FormatTests == {"is_pdf_response", "try_download_pdf"}

FormatIdle ==
    /\ ckind = "none"
    /\ ctype = ""
    /\ curlpdf = FALSE
    /\ cmagic = FALSE
    /\ cverdict = "idle"

FormatStart ==
    /\ ckind \in FormatTests
    /\ ctype \in MediaTypes
    /\ curlpdf \in BOOLEAN
    /\ cmagic \in BOOLEAN
    /\ cverdict = "pending"

FormatFrame == UNCHANGED <<storeVars, harvVars, keyVars, paceVars, fetchVars, licVars, pageVars, runVars, crawlVars, oaiVars, bioVars, kwVars, qryVars, normVars, dispVars, jsonVars, poolVars, coreVars, pmcVars, sideVars, xrefVars>>

Verdict(ok) == IF ok THEN "accepted" ELSE "rejected"

\* core_api.fetch_one: if not r.ok or not is_pdf_response(r): return 0
core_fetch_one_test ==
    /\ ckind = "is_pdf_response" /\ cverdict = "pending"
    /\ cverdict' = Verdict(is_pdf_response(ctype))
    /\ UNCHANGED <<ckind, ctype, curlpdf, cmagic>>
    /\ FormatFrame

\* biorxiv.try_download_pdf: is_probably_pdf_response(r) or %PDF, else None
try_download_pdf_test ==
    /\ ckind = "try_download_pdf" /\ cverdict = "pending"
    /\ cverdict' = Verdict(is_probably_pdf_response(ctype, curlpdf) \/ cmagic)
    /\ UNCHANGED <<ckind, ctype, curlpdf, cmagic>>
    /\ FormatFrame

FormatNext ==
    \/ core_fetch_one_test
    \/ try_download_pdf_test

\* the media types that declare a PDF
IsPdfMediaType(ct) ==
    ct \in {"application/pdf", "application/x-pdf", "application/pdf; charset=binary"}

\* C13: a successful response is accepted as a PDF payload exactly when its
\* content type is a PDF media type, or the URL path ends in .pdf, or the
\* body starts with %PDF.
AcceptedIffPdf ==
    cverdict \in {"accepted", "rejected"} =>
        (cverdict = "accepted" <=> (IsPdfMediaType(ctype) \/ curlpdf \/ cmagic))

(***************************************************************************)
(* License: norm_license (oai_pmh) and normalize_license (pmc) on          *)
(* character sequences                                                     *)
(***************************************************************************)
LowerLetters == <<"a", "b", "c", "d", "e", "f", "g", "h", "i", "j", "k", "l", "m", "n", "o", "p", "q", "r", "s", "t", "u", "v", "w", "x", "y", "z">>

UpperLetters == <<"A", "B", "C", "D", "E", "F", "G", "H", "I", "J", "K", "L", "M", "N", "O", "P", "Q", "R", "S", "T", "U", "V", "W", "X", "Y", "Z">>

Digits == {"0", "1", "2", "3", "4", "5", "6", "7", "8", "9"}

LetterIndex(t, c) == CHOOSE i \in 1..Len(t) : t[i] = c

IsLower(c) == \E i \in 1..Len(LowerLetters) : LowerLetters[i] = c

IsUpper(c) == \E i \in 1..Len(UpperLetters) : UpperLetters[i] = c

\* str.lower() / str.upper(), one character
ToLower(c) == IF IsUpper(c) THEN LowerLetters[LetterIndex(UpperLetters, c)] ELSE c

ToUpper(c) == IF IsLower(c) THEN UpperLetters[LetterIndex(LowerLetters, c)] ELSE c

LowerSeq(t) == [i \in 1..Len(t) |-> ToLower(t[i])]

UpperSeq(t) == [i \in 1..Len(t) |-> ToUpper(t[i])]

\* \w
IsWordChar(c) == IsLower(c) \/ IsUpper(c) \/ c \in Digits \/ c = "_"

\* t[i:i+len(w)] == w
HasAt(t, i, w) == i >= 1 /\ i + Len(w) - 1 <= Len(t) /\ SubSeq(t, i, i + Len(w) - 1) = w

\* w in t
Contains(t, w) == \E i \in 1..(Len(t) + 1) : HasAt(t, i, w)

\* the index after the run of whitespace that starts at i
RECURSIVE SkipSpaces(_, _)
SkipSpaces(t, i) == IF i <= Len(t) /\ IsSpace(t[i]) THEN SkipSpaces(t, i + 1) ELSE i

\* the words of ws, with \s* between them, start at i
RECURSIVE SpacedAt(_, _, _)
SpacedAt(t, i, ws) ==
    \/ ws = <<>>
    \/ /\ HasAt(t, i, Head(ws))
       /\ SpacedAt(t, IF Len(ws) = 1 THEN i ELSE SkipSpaces(t, i + Len(Head(ws))), Tail(ws))

ContainsSpaced(t, ws) == \E i \in 1..Len(t) : SpacedAt(t, i, ws)

\* [-\s]? in LICENSE_PATTERNS
OptSeps == {<<>>, <<"-">>, <<" ">>}

\* cc[-\s]?by[-\s]?(\d\.\d)?
MatchCcBy(t) == \E a \in OptSeps : Contains(t, <<"c", "c">> \o a \o <<"b", "y">>)

\* cc[-\s]?by[-\s]?sa[-\s]?(\d\.\d)?
MatchCcBySa(t) ==
    \E a \in OptSeps, b \in OptSeps : Contains(t, <<"c", "c">> \o a \o <<"b", "y">> \o b \o <<"s", "a">>)

\* cc0|publicdomainzero|pdm
MatchCc0(t) ==
    Contains(t, <<"c", "c", "0">>) \/ Contains(t, <<"p", "u", "b", "l", "i", "c", "d", "o", "m", "a", "i", "n", "z", "e", "r", "o">>) \/ Contains(t, <<"p", "d", "m">>)

\* public\s*domain|us-gov|pd
MatchPublicDomain(t) ==
    \/ ContainsSpaced(t, <<<<"p", "u", "b", "l", "i", "c">>, <<"d", "o", "m", "a", "i", "n">>>>)
    \/ Contains(t, <<"u", "s", "-", "g", "o", "v">>)
    \/ Contains(t, <<"p", "d">>)

\* oai_pmh.norm_license: the first matching entry of LICENSE_PATTERNS, then
\* the creativecommons.org substrings
norm_license(text) ==
    LET t == LowerSeq(Strip(text))
    IN  IF text = <<>> THEN <<>>
        ELSE IF MatchCcBy(t) THEN <<"c", "c", "-", "b", "y">>
        ELSE IF MatchCcBySa(t) THEN <<"c", "c", "-", "b", "y", "-", "s", "a">>
        ELSE IF MatchCc0(t) THEN <<"c", "c", "0">>
        ELSE IF MatchPublicDomain(t) THEN <<"p", "u", "b", "l", "i", "c", "-", "d", "o", "m", "a", "i", "n">>
        ELSE IF Contains(t, <<"c", "r", "e", "a", "t", "i", "v", "e", "c", "o", "m", "m", "o", "n", "s", ".", "o", "r", "g", "/", "l", "i", "c", "e", "n", "s", "e", "s", "/", "b", "y">>) THEN <<"c", "c", "-", "b", "y">>
        ELSE IF Contains(t, <<"c", "r", "e", "a", "t", "i", "v", "e", "c", "o", "m", "m", "o", "n", "s", ".", "o", "r", "g", "/", "l", "i", "c", "e", "n", "s", "e", "s", "/", "b", "y", "-", "s", "a">>) THEN <<"c", "c", "-", "b", "y", "-", "s", "a">>
        ELSE IF Contains(t, <<"c", "r", "e", "a", "t", "i", "v", "e", "c", "o", "m", "m", "o", "n", "s", ".", "o", "r", "g", "/", "p", "u", "b", "l", "i", "c", "d", "o", "m", "a", "i", "n", "/", "z", "e", "r", "o">>) THEN <<"c", "c", "0">>
        ELSE <<>>

\* the index after the run of [a-z\-] (case ignored) that starts at i
RECURSIVE KindEnd(_, _)
KindEnd(t, i) ==
    IF i <= Len(t) /\ (IsLower(ToLower(t[i])) \/ t[i] = "-") THEN KindEnd(t, i + 1) ELSE i

\* the index after the run of [0-9.] that starts at i
RECURSIVE VersionEnd(_, _)
VersionEnd(t, i) ==
    IF i <= Len(t) /\ (t[i] \in Digits \/ t[i] = ".") THEN VersionEnd(t, i + 1) ELSE i

CcUrlPrefix == <<"c", "r", "e", "a", "t", "i", "v", "e", "c", "o", "m", "m", "o", "n", "s", ".", "o", "r", "g", "/", "l", "i", "c", "e", "n", "s", "e", "s", "/">>

Cc0UrlPrefix == <<"c", "r", "e", "a", "t", "i", "v", "e", "c", "o", "m", "m", "o", "n", "s", ".", "o", "r", "g", "/", "p", "u", "b", "l", "i", "c", "d", "o", "m", "a", "i", "n", "/", "z", "e", "r", "o", "/">>

\* _CC_PAT matches at i: prefix, kind, "/", version
CcPatAt(t, i) ==
    LET k == i + Len(CcUrlPrefix)
        e == KindEnd(t, k)
    IN  /\ HasAt(LowerSeq(t), i, CcUrlPrefix)
        /\ e > k
        /\ HasAt(t, e, <<"/">>)
        /\ VersionEnd(t, e + 1) > e + 1

\* _CC_ZERO_PAT matches at i
Cc0PatAt(t, i) ==
    /\ HasAt(LowerSeq(t), i, Cc0UrlPrefix)
    /\ VersionEnd(t, i + Len(Cc0UrlPrefix)) > i + Len(Cc0UrlPrefix)

\* pmc._norm_cc_tag: every entry of its mapping is "CC-" + kind.upper(), as
\* is its default
norm_cc_tag(kind, ver) == <<"C", "C", "-">> \o UpperSeq(LowerSeq(kind)) \o <<"-">> \o Strip(ver)

\* pd\b
MatchPdWordEnd(t) ==
    \E i \in 1..Len(t) :
        HasAt(t, i, <<"p", "d">>) /\ (i + 2 > Len(t) \/ ~IsWordChar(t[i + 2]))

\* _PD_PAT: public\s*domain|pd\b|us-?gov|work\s*of\s*the\s*us\s*government
MatchPdPat(t) ==
    \/ ContainsSpaced(t, <<<<"p", "u", "b", "l", "i", "c">>, <<"d", "o", "m", "a", "i", "n">>>>)
    \/ MatchPdWordEnd(t)
    \/ Contains(t, <<"u", "s", "g", "o", "v">>) \/ Contains(t, <<"u", "s", "-", "g", "o", "v">>)
    \/ ContainsSpaced(t, <<<<"w", "o", "r", "k">>, <<"o", "f">>, <<"t", "h", "e">>, <<"u", "s">>, <<"g", "o", "v", "e", "r", "n", "m", "e", "n", "t">>>>)

\* pmc.normalize_license
normalize_license(raw) ==
    LET txt == Strip(raw)
        t == LowerSeq(txt)
        ccs == {i \in 1..Len(txt) : CcPatAt(txt, i)}
        zeros == {i \in 1..Len(txt) : Cc0PatAt(txt, i)}
        m == CHOOSE i \in ccs : \A j \in ccs : i <= j
        z == CHOOSE i \in zeros : \A j \in zeros : i <= j
        k == m + Len(CcUrlPrefix)
        v == z + Len(Cc0UrlPrefix)
    IN  IF raw = <<>> THEN <<>>
        ELSE IF ccs # {}
        THEN norm_cc_tag(SubSeq(txt, k, KindEnd(txt, k) - 1),
                         SubSeq(txt, KindEnd(txt, k) + 1,
                                VersionEnd(txt, KindEnd(txt, k) + 1) - 1))
        ELSE IF zeros # {}
        THEN <<"C", "C", "0", "-">> \o SubSeq(txt, v, VersionEnd(txt, v) - 1)
        ELSE IF \/ Contains(t, <<"c", "c", " ", "b", "y", " ", "4", ".", "0">>) \/ Contains(t, <<"c", "c", "-", "b", "y", " ", "4", ".", "0">>)
                \/ Contains(t, <<"c", "c", "-", "b", "y", "-", "4", ".", "0">>) \/ Contains(t, <<"a", "t", "t", "r", "i", "b", "u", "t", "i", "o", "n", " ", "4", ".", "0">>)
        THEN <<"C", "C", "-", "B", "Y", "-", "4", ".", "0">>
        ELSE IF \/ Contains(t, <<"c", "c", " ", "b", "y", " ", "3", ".", "0">>) \/ Contains(t, <<"c", "c", "-", "b", "y", "-", "3", ".", "0">>)
                \/ Contains(t, <<"a", "t", "t", "r", "i", "b", "u", "t", "i", "o", "n", " ", "3", ".", "0">>)
        THEN <<"C", "C", "-", "B", "Y", "-", "3", ".", "0">>
        ELSE IF \/ Contains(t, <<"c", "c", " ", "b", "y", "-", "s", "a", " ", "4", ".", "0">>) \/ Contains(t, <<"c", "c", "-", "b", "y", "-", "s", "a", "-", "4", ".", "0">>)
                \/ Contains(t, <<"a", "t", "t", "r", "i", "b", "u", "t", "i", "o", "n", "-", "s", "h", "a", "r", "e", "a", "l", "i", "k", "e", " ", "4", ".", "0">>)
        THEN <<"C", "C", "-", "B", "Y", "-", "S", "A", "-", "4", ".", "0">>
        ELSE IF Contains(t, <<"c", "c", "0">>) \/ Contains(t, <<"p", "u", "b", "l", "i", "c", " ", "d", "o", "m", "a", "i", "n", " ", "d", "e", "d", "i", "c", "a", "t", "i", "o", "n">>)
        THEN <<"C", "C", "0", "-", "1", ".", "0">>
        ELSE IF MatchPdPat(t)
        THEN IF Contains(t, <<"u", "s">>) /\ Contains(t, <<"g", "o", "v">>)
             THEN <<"U", "S", "-", "G", "o", "v", "-", "P", "D">>
             ELSE <<"P", "u", "b", "l", "i", "c", "-", "D", "o", "m", "a", "i", "n">>
        ELSE <<>>

\* license strings as sources publish them; names: the license the string
\* designates; trio: one of the three spellings of CC BY 4.0; url: a URL
LicenseSamples ==
    {[text |-> <<"C", "C", "-", "B", "Y", " ", "4", ".", "0">>,
      names |-> "cc-by", trio |-> TRUE, url |-> FALSE],
     [text |-> <<"h", "t", "t", "p", "s", ":", "/", "/", "c", "r", "e", "a", "t", "i", "v", "e", "c", "o", "m", "m", "o", "n", "s", ".", "o", "r", "g", "/", "l", "i", "c", "e", "n", "s", "e", "s", "/", "b", "y", "/", "4", ".", "0", "/">>,
      names |-> "cc-by", trio |-> TRUE, url |-> TRUE],
     [text |-> <<"c", "c", "-", "b", "y", "-", "4", ".", "0">>,
      names |-> "cc-by", trio |-> TRUE, url |-> FALSE],
     [text |-> <<"c", "c", "-", "b", "y", "-", "s", "a", " ", "4", ".", "0">>,
      names |-> "cc-by-sa", trio |-> FALSE, url |-> FALSE],
     [text |-> <<"h", "t", "t", "p", "s", ":", "/", "/", "c", "r", "e", "a", "t", "i", "v", "e", "c", "o", "m", "m", "o", "n", "s", ".", "o", "r", "g", "/", "l", "i", "c", "e", "n", "s", "e", "s", "/", "b", "y", "-", "s", "a", "/", "4", ".", "0", "/">>,
      names |-> "cc-by-sa", trio |-> FALSE, url |-> TRUE],
     [text |-> <<"c", "c", "-", "b", "y", "-", "n", "c", " ", "4", ".", "0">>,
      names |-> "cc-by-nc", trio |-> FALSE, url |-> FALSE],
     [text |-> <<"h", "t", "t", "p", "s", ":", "/", "/", "c", "r", "e", "a", "t", "i", "v", "e", "c", "o", "m", "m", "o", "n", "s", ".", "o", "r", "g", "/", "l", "i", "c", "e", "n", "s", "e", "s", "/", "b", "y", "-", "n", "c", "/", "4", ".", "0", "/">>,
      names |-> "cc-by-nc", trio |-> FALSE, url |-> TRUE],
     [text |-> <<"c", "c", "0">>,
      names |-> "cc0", trio |-> FALSE, url |-> FALSE],
     [text |-> <<"h", "t", "t", "p", "s", ":", "/", "/", "c", "r", "e", "a", "t", "i", "v", "e", "c", "o", "m", "m", "o", "n", "s", ".", "o", "r", "g", "/", "p", "u", "b", "l", "i", "c", "d", "o", "m", "a", "i", "n", "/", "z", "e", "r", "o", "/", "1", ".", "0", "/">>,
      names |-> "cc0", trio |-> FALSE, url |-> TRUE],
     [text |-> <<"a", "l", "l", " ", "r", "i", "g", "h", "t", "s", " ", "r", "e", "s", "e", "r", "v", "e", "d">>,
      names |-> "none", trio |-> FALSE, url |-> FALSE],
     [text |-> <<"u", "p", "d", "a", "t", "e", "d", " ", "t", "e", "r", "m", "s", " ", "a", "p", "p", "l", "y">>,
      names |-> "none", trio |-> FALSE, url |-> FALSE],
     [text |-> <<"p", "r", "o", "p", "r", "i", "e", "t", "a", "r", "y">>,
      names |-> "none", trio |-> FALSE, url |-> FALSE]}

Normalizers == {"oai_pmh", "pmc"}

SepChoices == {"keep", "-", "_", " "}

CaseChoices == {"keep", "lower", "upper"}

IsSeparatorChar(c) == c \in {"-", "_", " "}

\* the same license string written with another separator and case
Respell(text, sep, case) ==
    LET t1 == IF sep = "keep" THEN text
              ELSE [i \in 1..Len(text) |-> IF IsSeparatorChar(text[i]) THEN sep ELSE text[i]]
    IN  IF case = "lower" THEN LowerSeq(t1)
        ELSE IF case = "upper" THEN UpperSeq(t1)
        ELSE t1

LicenseIdle ==
    /\ limpl = "none"
    /\ lsample = <<>>
    /\ lsep = "keep"
    /\ lcase = "keep"
    /\ ltext = <<>>
    /\ ltag = <<>>
    /\ lnpc = "idle"

LicenseStart ==
    /\ limpl \in Normalizers
    /\ lsample \in LicenseSamples
    /\ lsep \in SepChoices
    /\ lsample.url => lsep = "keep"
    /\ lcase \in CaseChoices
    /\ ltext = Respell(lsample.text, lsep, lcase)
    /\ ltag = <<>>
    /\ lnpc = "new"

LicenseFrame == UNCHANGED <<storeVars, harvVars, keyVars, paceVars, fetchVars, fmtVars, pageVars, runVars, crawlVars, oaiVars, bioVars, kwVars, qryVars, normVars, dispVars, jsonVars, poolVars, coreVars, pmcVars, sideVars, xrefVars>>

\* oai_pmh.is_license_allowed: tag = norm_license(t)
oai_norm_call ==
    /\ limpl = "oai_pmh" /\ lnpc = "new"
    /\ ltag' = norm_license(ltext)
    /\ lnpc' = "done"
    /\ UNCHANGED <<limpl, lsample, lsep, lcase, ltext>>
    /\ LicenseFrame

\* pmc.parse_license_from_xml: tag = normalize_license(c)
pmc_normalize_call ==
    /\ limpl = "pmc" /\ lnpc = "new"
    /\ ltag' = normalize_license(ltext)
    /\ lnpc' = "done"
    /\ UNCHANGED <<limpl, lsample, lsep, lcase, ltext>>
    /\ LicenseFrame

LicenseNext ==
    \/ oai_norm_call
    \/ pmc_normalize_call

\* what the normalizer makes of the spelling cc-by-4.0
CanonicalCcBy(impl) ==
    IF impl = "oai_pmh" THEN norm_license(<<"c", "c", "-", "b", "y", "-", "4", ".", "0">>)
    ELSE normalize_license(<<"c", "c", "-", "b", "y", "-", "4", ".", "0">>)

\* C14: "CC-BY 4.0", the CC BY 4.0 URL and "cc-by-4.0", in any case and with
\* '-', '_' or space between their parts, normalize to one and the same tag.
SpellingsNormalizeAlike ==
    (lnpc = "done" /\ lsample.trio) => ltag = CanonicalCcBy(limpl)

\* the canonical family a sample designates, as characters
FamilyChars(names) ==
    IF names = "cc-by" THEN <<"c", "c", "-", "b", "y">>
    ELSE IF names = "cc-by-sa" THEN <<"c", "c", "-", "b", "y", "-", "s", "a">>
    ELSE IF names = "cc-by-nc" THEN <<"c", "c", "-", "b", "y", "-", "n", "c">>
    ELSE IF names = "cc0" THEN <<"c", "c", "0">>
    ELSE <<>>

\* tag is the family fam, bare or followed by a version
IsOfFamily(tag, fam) ==
    \/ LowerSeq(tag) = fam
    \/ /\ HasAt(LowerSeq(tag), 1, fam \o <<"-">>)
       /\ Len(tag) > Len(fam) + 1
       /\ tag[Len(fam) + 2] \in Digits

\* C15: a string designating CC BY-SA, CC BY-NC or CC0 normalizes to the tag
\* of that variant, and only plain CC BY normalizes to cc-by.
VariantsKeepTheirTag ==
    (lnpc = "done" /\ lsep = "keep" /\ lcase = "keep" /\ lsample.names # "none") =>
        IsOfFamily(ltag, FamilyChars(lsample.names))

\* C16: a string that names no Creative Commons or public-domain license
\* normalizes to null.
UnrecognizedIsNull ==
    (lnpc = "done" /\ lsep = "keep" /\ lcase = "keep" /\ lsample.names = "none") =>
        ltag = <<>>

(***************************************************************************)
(* Paging: the page loops of doaj.run_from_config, figshare.iter_articles  *)
(* and arxiv.harvest_query, one query                                      *)
(***************************************************************************)
MaxPages == 3

MaxPageSize == 3

per_page == 100

PagingConnectors == {"doaj", "figshare", "arxiv"}

\* max_results_per_query values tried for arxiv
Targets == {1, 150, 250}

\* opensearch:totalResults values a feed may carry (0: the field is absent)
ReportedTotals == {0, 40, 150, 1000}

\* how many entries a page of the arXiv feed may carry
PageCounts == {0, 1, 40, 50, 99, 100}

NoPage == [asked |-> 0, got |-> 0, answered |-> FALSE]

Min(a, b) == IF a <= b THEN a ELSE b

PagingIdle ==
    /\ pconn = "none"
    /\ pfeed = FALSE
    /\ pmax = 0
    /\ psize = 0
    /\ ppage = 0
    /\ pseen = 0
    /\ plast = NoPage
    /\ ppc = "idle"

PagingStart ==
    /\ pconn \in PagingConnectors
    /\ pfeed \in BOOLEAN
    /\ pconn # "arxiv" => ~pfeed
    /\ pmax \in IF pconn = "arxiv" THEN Targets ELSE 1..MaxPages
    /\ psize \in IF pconn = "arxiv" THEN {per_page} ELSE 1..MaxPageSize
    /\ ppage = 0
    /\ pseen = 0
    /\ plast = NoPage
    /\ ppc = "loop"

PagingFrame == UNCHANGED <<storeVars, harvVars, keyVars, paceVars, fetchVars, fmtVars, licVars, runVars, crawlVars, oaiVars, bioVars, kwVars, qryVars, normVars, dispVars, jsonVars, poolVars, coreVars, pmcVars, sideVars, xrefVars>>

\* a page of n records came back for a request of asked records, and the
\* loop goes on (more) or ends
PageAnswered(asked, n, more) ==
    /\ ppage' = IF pconn = "arxiv" THEN ppage ELSE ppage + 1
    /\ pseen' = pseen + n
    /\ plast' = [asked |-> asked, got |-> n, answered |-> TRUE]
    /\ ppc' = IF more THEN "loop" ELSE "done"
    /\ UNCHANGED <<pconn, pfeed, pmax, psize>>

\* the page request failed and the loop ends (break) or the error leaves it
PageFailed(pc) ==
    /\ ppc' = pc
    /\ UNCHANGED <<pconn, pfeed, pmax, psize, ppage, pseen, plast>>

\* doaj.run_from_config: one pass of `for page in range(1, pages + 1)`
doaj_page(n) ==
    /\ pconn = "doaj" /\ ppc = "loop"
    /\ n <= psize
    /\ PageAnswered(psize, n, n # 0 /\ ~(n < psize) /\ ppage + 1 < pmax)
    /\ PagingFrame

\* doaj.run_from_config: try_fetch_page returned None
doaj_no_payload ==
    /\ pconn = "doaj" /\ ppc = "loop"
    /\ PageFailed("done")
    /\ PagingFrame

\* figshare.iter_articles: one pass of `for page in range(1, pages + 1)`
figshare_page(n) ==
    /\ pconn = "figshare" /\ ppc = "loop"
    /\ n <= psize
    /\ PageAnswered(psize, n, n # 0 /\ ~(n < psize) /\ ppage + 1 < pmax)
    /\ PagingFrame

\* figshare.iter_articles: `except Exception: break`
figshare_query_failed ==
    /\ pconn = "figshare" /\ ppc = "loop"
    /\ PageFailed("done")
    /\ PagingFrame

\* arxiv.harvest_query: to_fetch = min(per_page, total_target - total_seen)
to_fetch == Min(psize, pmax - pseen)

\* arxiv.fetch_arxiv_batch: the total it returns with a page of n entries
total_reported(n, reported) == IF pfeed THEN reported ELSE pseen + n

\* arxiv.harvest_query: one pass of `while total_seen < total_target` whose
\* request was answered
arxiv_page(n, reported) ==
    /\ pconn = "arxiv" /\ ppc = "loop"
    /\ n <= to_fetch
    /\ PageAnswered(to_fetch, n,
                    /\ n # 0
                    /\ ~(pseen + n >= total_reported(n, reported))
                    /\ pseen + n < pmax)
    /\ PagingFrame

\* arxiv.harvest_query: `except requests.HTTPError`, up to time.sleep(3.0)
arxiv_page_http_error ==
    /\ pconn = "arxiv" /\ ppc = "loop"
    /\ PageFailed("backoff")
    /\ PagingFrame

\* arxiv.harvest_query: `continue` after the sleep; nothing was counted
arxiv_backoff_continue ==
    /\ pconn = "arxiv" /\ ppc = "backoff"
    /\ PageFailed("loop")
    /\ PagingFrame

\* arxiv.harvest_query: a Timeout or ConnectionError is not an HTTPError
arxiv_page_raises ==
    /\ pconn = "arxiv" /\ ppc = "loop"
    /\ PageFailed("raised")
    /\ PagingFrame

PagingNext ==
    \/ \E n \in 0..MaxPageSize : doaj_page(n)
    \/ doaj_no_payload
    \/ \E n \in 0..MaxPageSize : figshare_page(n)
    \/ figshare_query_failed
    \/ \E n \in PageCounts, reported \in ReportedTotals : arxiv_page(n, reported)
    \/ arxiv_page_http_error
    \/ arxiv_backoff_continue
    \/ arxiv_page_raises

\* the configured maximum is reached
MaxReached == IF pconn = "arxiv" THEN pseen >= pmax ELSE ppage >= pmax

\* the last page answered was empty or short, or the maximum is reached
StopDue ==
    plast.answered /\ (plast.got = 0 \/ plast.got < plast.asked \/ MaxReached)

\* C19: once a page came back empty or short, or the configured maximum is
\* reached, the connector requests no further page of the query, and it never
\* processes more than the configured maximum.
StopsWhenDue ==
    /\ StopDue => ppc \notin {"loop", "backoff"}
    /\ IF pconn = "arxiv" THEN pseen <= pmax ELSE ppage <= pmax

\* C20: the arXiv harvest of a query terminates whatever the API answers.
ArxivQueryTerminates == pconn = "arxiv" => <>(ppc \in {"done", "raised"})

(***************************************************************************)
(* Runner: run.main and run.run_source, one invocation                     *)
(***************************************************************************)
\* the keys of run.DISPATCH
DISPATCH == {"pmc", "arxiv", "unpaywall", "zenodo", "biorxiv", "gov", "doaj"}

\* sorted(DISPATCH)
Alphabetical == <<"arxiv", "biorxiv", "doaj", "gov", "pmc", "unpaywall", "zenodo">>

\* the names main skips as OAI-PMH
OaiNames == {"oai_pmh", "pmh", "oai"}

\* keys a sources.yaml may carry here
ConfigNames == {"pmc", "arxiv", "oai_pmh"}

DeclaredOrders ==
    {o \in UNION {[1..n -> ConfigNames] : n \in 0..Cardinality(ConfigNames)} :
        \A i \in DOMAIN o, j \in DOMAIN o : o[i] = o[j] => i = j}

RunnerSets == {{}, {"pmc"}, {"arxiv", "pmc"}, {"arxiv", "doaj", "pmc"}}

Range(f) == {f[i] : i \in DOMAIN f}

\* run.available_sources, sorted
available_sources(runners) == SelectSeq(Alphabetical, LAMBDA n : n \in runners)

\* run.main: run_list
run_list(declared, runners) ==
    LET kept == SelectSeq(declared, LAMBDA n : n \in DISPATCH)
    IN  IF kept # <<>> THEN kept ELSE available_sources(runners)

\* cfg_all.get(name, {}): the entry of a declared key, {} for any other name
Entry(name) == IF name \in Range(rdeclared) THEN rentry[name] ELSE "on"

NoSummary == [total |-> 0, ok |-> 0, error |-> 0, missing |-> 0]

RunnerIdle ==
    /\ rdeclared = <<>>
    /\ rentry = <<>>
    /\ ronly = {}
    /\ rskip = {}
    /\ rrunners = {}
    /\ rlist = <<>>
    /\ ridx = 0
    /\ rstarted = <<>>
    /\ rraised = {}
    /\ rresults = <<>>
    /\ rsummary = NoSummary
    /\ rpc = "idle"

RunnerStart ==
    /\ rdeclared \in DeclaredOrders
    /\ rentry \in [ConfigNames -> {"on", "off", "null"}]
    /\ \A n \in ConfigNames \ Range(rdeclared) : rentry[n] = "on"
    /\ ronly \in {{}, {"pmc"}}
    /\ rskip \in {{}, {"arxiv"}}
    /\ rrunners \in RunnerSets
    /\ rlist = run_list(rdeclared, rrunners)
    /\ ridx = 1
    /\ rstarted = <<>>
    /\ rraised = {}
    /\ rresults = <<>>
    /\ rsummary = NoSummary
    /\ rpc = "loop"

RunnerFrame == UNCHANGED <<storeVars, harvVars, keyVars, paceVars, fetchVars, fmtVars, licVars, pageVars, crawlVars, oaiVars, bioVars, kwVars, qryVars, normVars, dispVars, jsonVars, poolVars, coreVars, pmcVars, sideVars, xrefVars>>

RunnerConfig == <<rdeclared, rentry, ronly, rskip, rrunners, rlist>>

\* the loop is at a source of run_list
AtSource == rpc = "loop" /\ ridx <= Len(rlist)

\* the --only test alone
Filtered_only(name) == ronly # {} /\ name \notin ronly

\* run.main: the --only and --skip tests
Filtered(name) == (ronly # {} /\ name \notin ronly) \/ name \in rskip

\* run.main: every `continue` of the loop body
Skipped(name) ==
    \/ Filtered(name)
    \/ (Entry(name) # "null" /\ (Entry(name) = "off" \/ name \in OaiNames))

Count(status) == Cardinality({i \in 1..Len(rresults) : rresults[i].status = status})

\* run.main: a pass of the loop that ends in `continue`
main_skip ==
    /\ AtSource /\ Skipped(rlist[ridx])
    /\ ridx' = ridx + 1
    /\ UNCHANGED <<RunnerConfig, rstarted, rraised, rresults, rsummary, rpc>>
    /\ RunnerFrame

\* run.main: cfg is None and cfg.get raises AttributeError outside any try
main_cfg_null ==
    /\ AtSource /\ ~Filtered(rlist[ridx]) /\ Entry(rlist[ridx]) = "null"
    /\ rpc' = "aborted"
    /\ UNCHANGED <<RunnerConfig, ridx, rstarted, rraised, rresults, rsummary>>
    /\ RunnerFrame

\* run.run_source: DISPATCH.get(name) is None
run_source_missing ==
    /\ AtSource /\ ~Skipped(rlist[ridx]) /\ Entry(rlist[ridx]) # "null"
    /\ rlist[ridx] \notin rrunners
    /\ rresults' = Append(rresults, [source |-> rlist[ridx], status |-> "missing"])
    /\ ridx' = ridx + 1
    /\ UNCHANGED <<RunnerConfig, rstarted, rraised, rsummary, rpc>>
    /\ RunnerFrame

\* run.run_source: fn(name, cfg or {}, out_root) is called
run_source_call ==
    /\ AtSource /\ ~Skipped(rlist[ridx]) /\ Entry(rlist[ridx]) # "null"
    /\ rlist[ridx] \in rrunners
    /\ rstarted' = Append(rstarted, rlist[ridx])
    /\ rpc' = "running"
    /\ UNCHANGED <<RunnerConfig, ridx, rraised, rresults, rsummary>>
    /\ RunnerFrame

\* run.run_source: the runner returned
harvest_returns ==
    /\ rpc = "running"
    /\ rresults' = Append(rresults, [source |-> rlist[ridx], status |-> "ok"])
    /\ ridx' = ridx + 1
    /\ rpc' = "loop"
    /\ UNCHANGED <<RunnerConfig, rstarted, rraised, rsummary>>
    /\ RunnerFrame

\* what run_source does with an Exception of the runner
harvest_raises_uncaught ==
    /\ rpc' = "aborted"
    /\ UNCHANGED <<ridx, rresults>>

harvest_raises_caught ==
    /\ rresults' = Append(rresults, [source |-> rlist[ridx], status |-> "error"])
    /\ ridx' = ridx + 1
    /\ rpc' = "loop"

\* run.run_source: the runner raised an Exception
harvest_raises ==
    /\ rpc = "running"
    /\ rraised' = rraised \cup {rlist[ridx]}
    /\ harvest_raises_caught
    /\ UNCHANGED <<RunnerConfig, rstarted, rsummary>>
    /\ RunnerFrame

\* run.run_source: `except KeyboardInterrupt: raise`
harvest_interrupted ==
    /\ rpc = "running"
    /\ rpc' = "aborted"
    /\ UNCHANGED <<RunnerConfig, ridx, rstarted, rraised, rresults, rsummary>>
    /\ RunnerFrame

\* run.main: the summary after the loop
main_summary ==
    /\ rpc = "loop" /\ ridx > Len(rlist)
    /\ rsummary' = [total |-> Len(rresults), ok |-> Count("ok"),
                    error |-> Count("error"), missing |-> Count("missing")]
    /\ rpc' = "done"
    /\ UNCHANGED <<RunnerConfig, ridx, rstarted, rraised, rresults>>
    /\ RunnerFrame

RunnerNext ==
    \/ main_skip
    \/ main_cfg_null
    \/ run_source_missing
    \/ run_source_call
    \/ harvest_returns
    \/ harvest_raises
    \/ harvest_interrupted
    \/ main_summary

HasResult(name, status) ==
    \E i \in 1..Len(rresults) : rresults[i] = [source |-> name, status |-> status]

\* C28: an exception raised by a source's harvest is recorded as status
\* "error" for that source, and the sources after it in the run list are
\* still run.
FailureIsolated ==
    /\ \A n \in rraised : HasResult(n, "error")
    /\ (rraised # {} /\ rpc = "done") =>
           \A i \in 1..Len(rlist) :
               ~Skipped(rlist[i]) => \E st \in {"ok", "error", "missing"} : HasResult(rlist[i], st)

FailureIsolatedWitness ==
    /\ rpc = "done"
    /\ \E i \in 1..Len(rresults), j \in 1..Len(rresults) :
           i < j /\ rresults[i].status = "error" /\ rresults[j].status = "ok"

PositionIn(seq, name) == CHOOSE i \in 1..Len(seq) : seq[i] = name

\* C29: each source is run at most once, one at a time, in the declared
\* order of the configuration, and a disabled, --skip'ed or non --only
\* source is never run.
RunsOnceInDeclaredOrder ==
    /\ \A i \in 1..Len(rstarted), j \in 1..Len(rstarted) :
           i < j =>
               /\ rstarted[i] # rstarted[j]
               /\ ({rstarted[i], rstarted[j]} \subseteq Range(rdeclared) =>
                      PositionIn(rdeclared, rstarted[i]) < PositionIn(rdeclared, rstarted[j]))
    /\ \A n \in Range(rstarted) :
           Entry(n) = "on" /\ n \notin rskip /\ (ronly = {} \/ n \in ronly)
    /\ rpc = "running" => Count("ok") + Count("error") = Len(rstarted) - 1
    /\ rpc \in {"loop", "done"} => Count("ok") + Count("error") = Len(rstarted)

RunsOnceInDeclaredOrderWitness ==
    /\ rpc = "done"
    /\ rstarted = <<"pmc", "arxiv">>
    /\ rdeclared = <<"pmc", "oai_pmh", "arxiv">>

\* C30: the summary counts every source of the run list once as ok, error
\* or skipped (disabled or without a runner), and total is the sum of the
\* three counts.
SummaryCountsRunList ==
    rpc = "done" =>
        /\ rsummary.total = rsummary.ok + rsummary.error + rsummary.missing
        /\ rsummary.total = Cardinality({i \in 1..Len(rlist) : ~Filtered(rlist[i])})
        /\ rsummary.missing =
               Cardinality({i \in 1..Len(rlist) :
                   /\ ~Filtered(rlist[i])
                   /\ (Entry(rlist[i]) = "off" \/ rlist[i] \notin rrunners)})

(***************************************************************************)
(* Crawl: govcrawl.run_from_config with norm_url, is_allowed, should_fetch *)
(***************************************************************************)
MaxDepth == 2

MaxPerDomain == 2

\* a URL as urlparse splits it; host: its labels; port 0: none given;
\* brk: the host is written in square brackets (an IPv6 literal)
Url(scheme, host, port, path, frag) ==
    [scheme |-> scheme, host |-> host, port |-> port, path |-> path, frag |-> frag, brk |-> FALSE]

HostCdc == <<"cdc", "gov">>

HostCdcUpper == <<"CDC", "gov">>

HostWww == <<"www", "cdc", "gov">>

HostNotCdc == <<"notcdc", "gov">>

HostElsewhere == <<"example", "com">>

\* the URLs seeds and pages may carry
RawUrls ==
    {Url("https", HostCdc, 0, "/", ""),
     Url("HTTPS", HostCdcUpper, 443, "", "top"),
     Url("https", HostWww, 0, "/a.pdf", ""),
     Url("https", HostCdc, 0, "/b.zip", ""),
     Url("https", HostNotCdc, 0, "/", "")}

\* str.lower() of a host label or scheme
LowerWord(w) == IF w = "CDC" THEN "cdc" ELSE IF w = "HTTPS" THEN "https" ELSE w

LowerHost(h) == [i \in 1..Len(h) |-> LowerWord(h[i])]

\* govcrawl.norm_url
norm_url(u) ==
    LET scheme == LowerWord(u.scheme)
        default == (scheme = "http" /\ u.port = 80) \/ (scheme = "https" /\ u.port = 443)
    IN  Url(scheme, LowerHost(u.host), IF default THEN 0 ELSE u.port,
            IF u.path = "" THEN "/" ELSE u.path, "")

HostLoopback6 == <<"::1">>

\* the host text holds a colon
HasColon(host) == host = HostLoopback6

\* urlparse(u).port of a netloc without brackets splits at the first colon
\* and raises ValueError when what follows is not a number; port -1: the
\* port text given is not a number
port_raises(u) == (~u.brk /\ HasColon(u.host)) \/ u.port < 0

\* a link as a page may carry it, "https://cdc.gov:abc/"
MalformedLink == Url("https", HostCdc, -1, "/", "")

\* govcrawl.url_domain
url_domain(u) == LowerHost(u.host)

\* host.endswith("." + d)
IsSubDomain(host, d) ==
    Len(host) > Len(d) /\ SubSeq(host, Len(host) - Len(d) + 1, Len(host)) = d

\* any URL with a host
is_allowed_any_host(u, allow) == url_domain(u) # <<>>

\* govcrawl.is_allowed
is_allowed(u, allow) ==
    /\ url_domain(u) # <<>>
    /\ \E d \in allow : url_domain(u) = d \/ IsSubDomain(url_domain(u), d)

\* Path(path).suffix.lower()
Suffix(path) ==
    IF path = "/a.pdf" THEN ".pdf" ELSE IF path = "/b.zip" THEN ".zip" ELSE ""

\* govcrawl.should_fetch
should_fetch(u, exts) ==
    IF Suffix(u.path) = "" THEN ".html" \in exts ELSE Suffix(u.path) \in exts

\* govcrawl.guess_ext_from_ctype
guess_ext_from_ctype(ct) ==
    IF ct = "application/pdf" THEN ".pdf"
    ELSE IF ct = "text/html" THEN ".html"
    ELSE ""

\* govcrawl.save_payload: whether a file is written
save_payload(u, ct, looksHtml, filetypes) ==
    LET ext == IF Suffix(u.path) # "" THEN Suffix(u.path)
               ELSE IF guess_ext_from_ctype(ct) # "" THEN guess_ext_from_ctype(ct)
               ELSE IF looksHtml /\ ".html" \in filetypes THEN ".html"
               ELSE ""
    IN  ext # "" /\ ext \in filetypes

NormUrls == {norm_url(u) : u \in RawUrls}

CrawlHosts == {url_domain(u) : u \in RawUrls} \cup {HostElsewhere}

\* one or two seeds
SeedLists == {<<a>> : a \in RawUrls} \cup {<<a, b>> : a \in RawUrls, b \in RawUrls}

\* the links of a page: none, one or two
LinkLists == {<<>>} \cup SeedLists

\* what a request may bring back; via: the host a redirect led through
CrawlResponse(status, ct, looksHtml, via) ==
    [status |-> status, ctype |-> ct, looksHtml |-> looksHtml, via |-> via]

CrawlResponses ==
    {CrawlResponse(200, "text/html", TRUE, <<>>),
     CrawlResponse(200, "text/html", TRUE, HostElsewhere),
     CrawlResponse(200, "application/pdf", FALSE, <<>>),
     CrawlResponse(200, "application/zip", TRUE, <<>>),
     CrawlResponse(200, "application/zip", FALSE, <<>>),
     CrawlResponse(404, "text/html", FALSE, <<>>)}

CrawlIdle ==
    /\ gseeds = <<>>
    /\ gallow = {}
    /\ gfiletypes = {}
    /\ gmaxdepth = 0
    /\ gmaxper = 0
    /\ gseen = {}
    /\ gq = <<>>
    /\ gsaved = <<>>
    /\ genq = <<>>
    /\ gitems = {}
    /\ ghosts = {}
    /\ gpc = "idle"

\* run_from_config up to the seeding: allow_domains is the configured set
\* or, when that is empty, the hosts of the seeds
CrawlStart ==
    /\ gseeds \in SeedLists
    /\ \E cfgAllow \in {{}, {HostCdc}} :
           gallow = IF cfgAllow # {} THEN cfgAllow
                    ELSE {url_domain(gseeds[i]) : i \in 1..Len(gseeds)}
    /\ gfiletypes \in {{".pdf", ".html"}, {".pdf"}}
    /\ gmaxdepth \in 0..MaxDepth
    /\ gmaxper \in 1..MaxPerDomain
    /\ gseen = {}
    /\ gq = <<>>
    /\ gsaved = [h \in CrawlHosts |-> 0]
    /\ genq = [u \in NormUrls |-> 0]
    /\ gitems = {}
    /\ ghosts = {}
    /\ gpc = "seed"

CrawlFrame == UNCHANGED <<storeVars, harvVars, keyVars, paceVars, fetchVars, fmtVars, licVars, pageVars, runVars, oaiVars, bioVars, kwVars, qryVars, normVars, dispVars, jsonVars, poolVars, coreVars, pmcVars, sideVars, xrefVars>>

CrawlConfig == <<gseeds, gallow, gfiletypes, gmaxdepth, gmaxper>>

CrawlItem(url, depth) == [url |-> url, depth |-> depth]

\* the seeds that pass is_allowed, normalized, in order
RECURSIVE SeedItems(_)
SeedItems(seeds) ==
    IF seeds = <<>> THEN <<>>
    ELSE LET seed == norm_url(Head(seeds))
         IN  IF is_allowed(seed, gallow)
             THEN <<CrawlItem(seed, 0)>> \o SeedItems(Tail(seeds))
             ELSE SeedItems(Tail(seeds))

\* how many items of the sequence carry the URL
Occurrences(items, u) == Cardinality({i \in 1..Len(items) : items[i].url = u})

\* run_from_config: `for seed in seeds`
seed_queue ==
    /\ gpc = "seed"
    /\ gq' = SeedItems(gseeds)
    /\ gseen' = {gq'[i].url : i \in 1..Len(gq')}
    /\ genq' = [u \in NormUrls |-> Occurrences(gq', u)]
    /\ gitems' = {gq'[i] : i \in 1..Len(gq')}
    /\ gpc' = "crawl"
    /\ UNCHANGED <<CrawlConfig, gsaved, ghosts>>
    /\ CrawlFrame

\* run_from_config: the tests a link passes before it is put in q
Enqueueable(lk, seen, saved) ==
    /\ lk \notin seen
    /\ is_allowed(lk, gallow)
    /\ should_fetch(lk, gfiletypes \cup {".html"})
    /\ ~(saved[url_domain(lk)] >= gmaxper)

\* run_from_config: `for lk in links`, from the seen-set given; the links
\* that are put in q, in order
RECURSIVE NewLinks(_, _, _)
NewLinks(links, seen, saved) ==
    IF links = <<>> THEN <<>>
    ELSE LET lk == norm_url(Head(links))
         IN  IF Enqueueable(lk, seen, saved)
             THEN <<lk>> \o NewLinks(Tail(links), seen \cup {lk}, saved)
             ELSE NewLinks(Tail(links), seen, saved)

\* up to and including max_depth
MayExpand_inclusive(item) == item.depth <= gmaxdepth

\* run_from_config: `if item.depth < max_depth`
MayExpand(item) == item.depth < gmaxdepth

\* run_from_config: a pass of `while q` that stops at the domain quota
crawl_quota_reached ==
    /\ gpc = "crawl" /\ gq # <<>>
    /\ gsaved[url_domain(Head(gq).url)] >= gmaxper
    /\ gq' = Tail(gq)
    /\ UNCHANGED <<CrawlConfig, gseen, gsaved, genq, gitems, ghosts, gpc>>
    /\ CrawlFrame

\* run_from_config: a pass of `while q` whose fetch raised
crawl_fetch_failed ==
    /\ gpc = "crawl" /\ gq # <<>>
    /\ ~(gsaved[url_domain(Head(gq).url)] >= gmaxper)
    /\ gq' = Tail(gq)
    /\ ghosts' = ghosts \cup {url_domain(Head(gq).url)}
    /\ UNCHANGED <<CrawlConfig, gseen, gsaved, genq, gitems, gpc>>
    /\ CrawlFrame

\* run_from_config: a pass of `while q` whose fetch was answered
crawl_item(resp, links) ==
    LET item == Head(gq)
        dom == url_domain(item.url)
        saves == /\ resp.status = 200
                 /\ should_fetch(item.url, gfiletypes)
                 /\ save_payload(item.url, resp.ctype, resp.looksHtml, gfiletypes)
        saved == IF saves THEN [gsaved EXCEPT ![dom] = @ + 1] ELSE gsaved
        extracts == /\ resp.status = 200
                    /\ (resp.ctype = "text/html" \/ should_fetch(item.url, {".html"}))
        new == IF extracts /\ MayExpand(item)
               THEN NewLinks(links, gseen, saved)
               ELSE <<>>
        items == [i \in 1..Len(new) |-> CrawlItem(new[i], item.depth + 1)]
    IN  /\ gpc = "crawl" /\ gq # <<>>
        /\ ~(gsaved[dom] >= gmaxper)
        /\ ~extracts => links = <<>>
        /\ ghosts' = ghosts \cup {dom} \cup (IF resp.via = <<>> THEN {} ELSE {resp.via})
        /\ gsaved' = saved
        /\ gq' = Tail(gq) \o items
        /\ gseen' = gseen \cup {new[i] : i \in 1..Len(new)}
        /\ genq' = [u \in NormUrls |-> genq[u] + Occurrences(items, u)]
        /\ gitems' = gitems \cup {items[i] : i \in 1..Len(items)}
        /\ UNCHANGED <<CrawlConfig, gpc>>
        /\ CrawlFrame

\* run_from_config: a pass of `while q` on a page whose first link has a
\* port that is not a number: norm_url(lk) raises out of run_from_config
crawl_link_raises(resp, lk) ==
    LET item == Head(gq)
        dom == url_domain(item.url)
        saves == /\ resp.status = 200
                 /\ should_fetch(item.url, gfiletypes)
                 /\ save_payload(item.url, resp.ctype, resp.looksHtml, gfiletypes)
        extracts == /\ resp.status = 200
                    /\ (resp.ctype = "text/html" \/ should_fetch(item.url, {".html"}))
    IN  /\ gpc = "crawl" /\ gq # <<>>
        /\ ~(gsaved[dom] >= gmaxper)
        /\ extracts /\ MayExpand(item)
        /\ port_raises(lk)
        /\ ghosts' = ghosts \cup {dom} \cup (IF resp.via = <<>> THEN {} ELSE {resp.via})
        /\ gsaved' = IF saves THEN [gsaved EXCEPT ![dom] = @ + 1] ELSE gsaved
        /\ gq' = Tail(gq)
        /\ gpc' = "raised"
        /\ UNCHANGED <<CrawlConfig, gseen, genq, gitems>>
        /\ CrawlFrame

\* run_from_config: q is empty, the summary is logged
crawl_complete ==
    /\ gpc = "crawl" /\ gq = <<>>
    /\ gpc' = "done"
    /\ UNCHANGED <<CrawlConfig, gseen, gq, gsaved, genq, gitems, ghosts>>
    /\ CrawlFrame

CrawlNext ==
    \/ seed_queue
    \/ crawl_quota_reached
    \/ crawl_fetch_failed
    \/ \E resp \in CrawlResponses, links \in LinkLists : crawl_item(resp, links)
    \/ \E resp \in CrawlResponses : crawl_link_raises(resp, MalformedLink)
    \/ crawl_complete

\* the host is an allow-listed domain or a sub-domain of one
OnAllowList(host) == \E d \in gallow : host = d \/ IsSubDomain(host, d)

\* C24: every URL enqueued or fetched during a crawl has a host on the
\* allow-list (a listed domain or a sub-domain of one).
FetchesStayOnAllowList ==
    /\ \A it \in gitems : OnAllowList(url_domain(it.url))
    /\ \A h \in ghosts : OnAllowList(h)

\* C24, as it holds: every URL put in the queue, and so every URL the crawl
\* itself requests, has a host on the allow-list; seeds and links outside it
\* are never enqueued.
EnqueuedStayOnAllowList ==
    /\ \A it \in gitems : OnAllowList(url_domain(it.url))
    /\ \A i \in 1..Len(gq) : gq[i] \in gitems

EnqueuedStayOnAllowListWitness ==
    /\ gpc = "done"
    /\ gallow = {HostCdc}
    /\ \E i \in 1..Len(gseeds) : url_domain(gseeds[i]) = HostNotCdc
    /\ \E it \in gitems : it.depth > 0 /\ url_domain(it.url) = HostWww

\* C25: every queued or processed item has depth <= max_depth, and no
\* domain has more than max_per_domain saved items.
DepthAndQuotaBounded ==
    /\ \A it \in gitems : it.depth <= gmaxdepth
    /\ \A h \in DOMAIN gsaved : gsaved[h] <= gmaxper

DepthAndQuotaBoundedWitness ==
    /\ gpc = "done"
    /\ gmaxdepth > 0
    /\ \E it \in gitems : it.depth = gmaxdepth
    /\ \E h \in DOMAIN gsaved : gsaved[h] = gmaxper

\* C26: no normalized URL is put in the queue more than once.
NoUrlEnqueuedTwice == \A u \in DOMAIN genq : genq[u] <= 1

(***************************************************************************)
(* OAI-PMH: oai_pmh.oai_list_records                                       *)
(***************************************************************************)
MaxOaiPages == 3

\* the records of a ListRecords page: live, deleted (header status="deleted")
\* or without a header
RecordLists ==
    {<<>>, <<"live">>, <<"deleted">>, <<"noheader", "live">>, <<"live", "deleted">>}

\* the text of a resumptionToken element
TokenTexts == {<<>>, <<" ">>, <<"t">>, <<" ", "u", " ">>}

\* hasrt: the answer has a resumptionToken element; rt: its text
OaiAnswer(kind, records, hasrt, rt) ==
    [kind |-> kind, records |-> records, hasrt |-> hasrt, rt |-> rt]

\* kind: "page", "error" (an oai:error element) or "failed" (the request or
\* the parse raised)
OaiAnswers ==
    {OaiAnswer("page", recs, TRUE, rt) : recs \in RecordLists, rt \in TokenTexts}
        \cup {OaiAnswer("page", recs, FALSE, <<>>) : recs \in RecordLists}
        \cup {OaiAnswer("error", <<>>, FALSE, <<>>), OaiAnswer("failed", <<>>, FALSE, <<>>)}

OaiIdle ==
    /\ otoken = <<>>
    /\ oreqs = <<>>
    /\ oresps = <<>>
    /\ oyielded = <<>>
    /\ opc = "idle"

OaiStart ==
    /\ otoken = <<>>
    /\ oreqs = <<>>
    /\ oresps = <<>>
    /\ oyielded = <<>>
    /\ opc = "loop"

OaiFrame == UNCHANGED <<storeVars, harvVars, keyVars, paceVars, fetchVars, fmtVars, licVars, pageVars, runVars, crawlVars, bioVars, kwVars, qryVars, normVars, dispVars, jsonVars, poolVars, coreVars, pmcVars, sideVars, xrefVars>>

\* every record is handed on
IsYielded_all(rec) == TRUE

\* oai_list_records: `if header is None or status == "deleted": continue`
IsYielded(rec) == ~(rec = "noheader" \/ rec = "deleted")

\* oai_list_records: token = (rt.text or "").strip() if rt is not None else None
next_token(ans) == IF ans.hasrt THEN Strip(ans.rt) ELSE <<>>

\* oai_list_records: one pass of `while True` that got a page
oai_page(ans) ==
    /\ opc = "loop" /\ Len(oreqs) < MaxOaiPages
    /\ ans.kind = "page"
    /\ oreqs' = Append(oreqs, otoken)
    /\ oresps' = Append(oresps, ans)
    /\ oyielded' = oyielded \o SelectSeq(ans.records, IsYielded)
    /\ otoken' = next_token(ans)
    /\ opc' = IF next_token(ans) = <<>> THEN "done" ELSE "loop"
    /\ OaiFrame

\* oai_list_records: an oai:error element (return), or an exception (break)
oai_stop(ans) ==
    /\ opc = "loop" /\ Len(oreqs) < MaxOaiPages
    /\ ans.kind # "page"
    /\ oreqs' = Append(oreqs, otoken)
    /\ oresps' = Append(oresps, ans)
    /\ opc' = "done"
    /\ UNCHANGED <<otoken, oyielded>>
    /\ OaiFrame

OaiNext ==
    \/ \E ans \in OaiAnswers : oai_page(ans)
    \/ \E ans \in OaiAnswers : oai_stop(ans)

\* the answer carries a resumptionToken that is not empty
HasToken(ans) == ans.kind = "page" /\ ans.hasrt /\ Strip(ans.rt) # <<>>

\* C22: ListRecords never yields a deleted or header-less record, issues no
\* request after an answer without a (non-empty) resumptionToken, and every
\* continuation request carries the token of the answer just before it.
ListRecordsFollowsTokens ==
    /\ \A i \in 1..Len(oyielded) : oyielded[i] = "live"
    /\ \A i \in 1..Len(oreqs) :
           i > 1 => (HasToken(oresps[i - 1]) /\ oreqs[i] = Strip(oresps[i - 1].rt))
    /\ (opc = "loop" /\ oresps # <<>>) => HasToken(oresps[Len(oresps)])
    /\ oreqs # <<>> => oreqs[1] = <<>>

ListRecordsFollowsTokensWitness ==
    /\ opc = "done"
    /\ Len(oreqs) = MaxOaiPages
    /\ oresps[1].records = <<"live", "deleted">>
    /\ oresps[2].records = <<"noheader", "live">>
    /\ oyielded = <<"live", "live">>
    /\ oresps[Len(oresps)].hasrt /\ oresps[Len(oresps)].rt = <<" ">>

(***************************************************************************)
(* bioRxiv: the page loop of biorxiv.harvest_biorxiv                       *)
(***************************************************************************)
MaxBiorxivPages == 4

\* `cursor += 100`
BiorxivPageSize == 100

\* how many records a page may carry
CollectionSizes == {0, 50, 100}

\* messages[0].total of an answer (-1: no such field)
MessageTotals == {-1, 150, 250}

BiorxivIdle ==
    /\ blimit = 0
    /\ bcursor = 0
    /\ bfetched = 0
    /\ btotal = 0
    /\ bknown = 0
    /\ breqs = <<>>
    /\ bpc = "idle"

BiorxivStart ==
    /\ blimit \in {-1, 120}
    /\ bcursor = 0
    /\ bfetched = 0
    /\ btotal = -1
    /\ bknown = 0
    /\ breqs = <<>>
    /\ bpc = "loop"

BiorxivFrame == UNCHANGED <<storeVars, harvVars, keyVars, paceVars, fetchVars, fmtVars, licVars, pageVars, runVars, crawlVars, oaiVars, kwVars, qryVars, normVars, dispVars, jsonVars, poolVars, coreVars, pmcVars, sideVars, xrefVars>>

\* harvest_biorxiv: `for rec in coll`: fetched after a page of which kept
\* records pass the keyword and doi tests
fetched_after(kept) ==
    IF blimit # -1 /\ bfetched + kept > blimit
    THEN IF bfetched >= blimit THEN bfetched ELSE blimit
    ELSE bfetched + kept

\* harvest_biorxiv: one pass of `while True` whose fetch_batch returned
biorxiv_page(n, kept, reported) ==
    /\ bpc = "loop" /\ Len(breqs) < MaxBiorxivPages
    /\ kept \in {0, n}
    /\ breqs' = Append(breqs, bcursor)
    /\ btotal' = IF btotal = -1 THEN reported ELSE btotal
    /\ bknown' = IF btotal = -1 /\ reported # -1 THEN Len(breqs) + 1 ELSE bknown
    /\ IF n = 0
       THEN bpc' = "done" /\ UNCHANGED <<bfetched, bcursor>>
       ELSE /\ bfetched' = fetched_after(kept)
            /\ IF blimit # -1 /\ fetched_after(kept) >= blimit
               THEN bpc' = "done" /\ UNCHANGED bcursor
               ELSE bpc' = "loop" /\ bcursor' = bcursor + BiorxivPageSize
    /\ UNCHANGED blimit
    /\ BiorxivFrame

\* harvest_biorxiv: fetch_batch raised after its retries
biorxiv_fetch_raises ==
    /\ bpc = "loop" /\ Len(breqs) < MaxBiorxivPages
    /\ breqs' = Append(breqs, bcursor)
    /\ bpc' = "raised"
    /\ UNCHANGED <<blimit, bcursor, bfetched, btotal, bknown>>
    /\ BiorxivFrame

BiorxivNext ==
    \/ \E n \in CollectionSizes, kept \in CollectionSizes, reported \in MessageTotals :
           biorxiv_page(n, kept, reported)
    \/ biorxiv_fetch_raises

FilterTerms == {<<"c", "r", "e", "a", "t", "i", "n", "e">>, <<"S", "L", "E", "E", "P">>}

TermLists ==
    {<<>>} \cup {<<a>> : a \in FilterTerms} \cup {<<a, b>> : a \in FilterTerms, b \in FilterTerms}

Titles == {<<"C", "r", "e", "a", "t", "i", "n", "e", " ", "l", "o", "a", "d", "i", "n", "g">>, <<"S", "l", "e", "e", "p">>}

Abstracts == {<<>>, <<"s", "l", "e", "e", "p", " ", "a", "n", "d", " ", "c", "r", "e", "a", "t", "i", "n", "e">>, <<"p", "r", "o", "t", "e", "i", "n">>}

\* sep.join(fields)
RECURSIVE Join(_, _)
Join(sep, fields) ==
    IF fields = <<>> THEN <<>>
    ELSE IF Len(fields) = 1 THEN Head(fields)
    ELSE Head(fields) \o sep \o Join(sep, Tail(fields))

\* all(k.lower() in hay for k in keywords)
RECURSIVE AllIn(_, _)
AllIn(terms, hay) ==
    terms = <<>> \/ (Contains(hay, LowerSeq(Head(terms))) /\ AllIn(Tail(terms), hay))

\* biorxiv.fits_keywords; the record has no category
fits_keywords(fields, keywords) ==
    \/ keywords = <<>>
    \/ AllIn(keywords, LowerSeq(Join(<<" ">>, fields \o <<<<>>>>)))

\* oai_pmh.any_query_match for one query: what its loop body returns
query_matches(q0, hay) ==
    LET q == LowerSeq(Strip(q0))
    IN  /\ q # <<>>
        /\ IF Len(q) > 1 /\ Head(q) = "\"" /\ q[Len(q)] = "\""
           THEN Contains(hay, Strip(SubSeq(q, 2, Len(q) - 1)))
           ELSE Contains(hay, q)

\* oai_pmh.any_query_match
RECURSIVE AnyMatches(_, _)
AnyMatches(queries, hay) ==
    queries # <<>> /\ (query_matches(Head(queries), hay) \/ AnyMatches(Tail(queries), hay))

any_query_match(queries, fields) ==
    \/ queries = <<>>
    \/ AnyMatches(queries, LowerSeq(Join(<<" ", "\n", " ">>, fields)))

\* oai_pmh.run_from_config: the buckets `for q in (qlist or [""])` writes the
\* record to; <<>> is the bucket "all"
oai_buckets(qlist, fields) ==
    LET stripped == [i \in 1..Len(qlist) |-> Strip(qlist[i])]
        targets == IF fields = <<>> THEN <<<<>>>> ELSE fields
    IN  IF stripped = <<>> THEN {<<>>}
        ELSE {stripped[i] : i \in {j \in 1..Len(stripped) :
                 stripped[j] = <<>> \/ any_query_match(<<stripped[j]>>, targets)}}

KeywordIdle ==
    /\ qimpl = "none"
    /\ qterms = <<>>
    /\ qfields = <<>>
    /\ qkept = {}
    /\ qpc = "idle"

KeywordStart ==
    /\ qimpl \in {"biorxiv", "oai_pmh"}
    /\ qterms \in TermLists
    /\ \E t \in Titles, a \in Abstracts : qfields = <<t, a>>
    /\ qkept = {}
    /\ qpc = "new"

KeywordFrame == UNCHANGED <<storeVars, harvVars, keyVars, paceVars, fetchVars, fmtVars, licVars, pageVars, runVars, crawlVars, oaiVars, bioVars, qryVars, normVars, dispVars, jsonVars, poolVars, coreVars, pmcVars, sideVars, xrefVars>>

\* biorxiv.harvest_biorxiv: `if not fits_keywords(rec, keywords): continue`
biorxiv_filter ==
    /\ qimpl = "biorxiv" /\ qpc = "new"
    /\ qkept' = IF fits_keywords(qfields, qterms) THEN {<<>>} ELSE {}
    /\ qpc' = "done"
    /\ UNCHANGED <<qimpl, qterms, qfields>>
    /\ KeywordFrame

\* oai_pmh.run_from_config: the per-query matching of a record
oai_filter ==
    /\ qimpl = "oai_pmh" /\ qpc = "new"
    /\ qkept' = oai_buckets(qterms, SelectSeq(qfields, LAMBDA f : f # <<>>))
    /\ qpc' = "done"
    /\ UNCHANGED <<qimpl, qterms, qfields>>
    /\ KeywordFrame

KeywordNext ==
    \/ biorxiv_filter
    \/ oai_filter

\* the term occurs, case ignored, in one of the record's fields
TermOccurs(term) ==
    \E i \in 1..Len(qfields) : Contains(LowerSeq(qfields[i]), LowerSeq(term))

\* C27: a record is persisted only if every configured term occurs, case
\* ignored, as a substring of its title/abstract/category text.
KeptOnlyIfAllTermsOccur ==
    (qpc = "done" /\ qkept # {}) => \A i \in 1..Len(qterms) : TermOccurs(qterms[i])

(***************************************************************************)
(* Query loops: figshare.iter_articles, zenodo.iter_records and the page   *)
(* loop of doaj.run_from_config, each under `for q in queries`             *)
(***************************************************************************)
NumQueries == 2

QueryPages == 2

QueryPageSize == 2

\* len(doaj.API_PATTERNS)
ApiPatterns == 3

QueryConnectors == {"figshare", "zenodo", "doaj"}

RecordIds == {1, 2, 3, 4}

\* the pages a server may answer with
HitSets == {h \in SUBSET RecordIds : Cardinality(h) <= QueryPageSize}

QueriesIdle ==
    /\ yconn = "none"
    /\ ynq = 0
    /\ ywhite = {}
    /\ yq = 0
    /\ ypage = 0
    /\ ypat = 0
    /\ ydisk = {}
    /\ yreqs = {}
    /\ yfail = {}
    /\ ypc = "idle"

QueriesStart ==
    /\ yconn \in QueryConnectors
    /\ ynq \in 1..NumQueries
    /\ ywhite \in {RecordIds, {1, 2}}
    /\ yq = 1
    /\ ypage = 1
    /\ ypat = 1
    /\ ydisk = {}
    /\ yreqs = {}
    /\ yfail = {}
    /\ ypc = "run"

QueriesFrame == UNCHANGED <<storeVars, harvVars, keyVars, paceVars, fetchVars, fmtVars, licVars, pageVars, runVars, crawlVars, oaiVars, bioVars, kwVars, normVars, dispVars, jsonVars, poolVars, coreVars, pmcVars, sideVars, xrefVars>>

QueriesConfig == UNCHANGED <<yconn, ynq, ywhite>>

\* a request for a page of the current query is due
PageDue == ypc = "run" /\ yq <= ynq /\ ypage <= QueryPages

\* the record loop of run_from_config over one page: licence screen, then
\* `if not meta_path.exists(): safe_write_json(meta_path, rec)`
persist_page(files, hits, q, page) ==
    files \cup {[id |-> i, q |-> q, page |-> page] :
                  i \in {h \in hits \cap ywhite : \A d \in files : d.id # h}}

\* the for loop over pages ends: `for q in queries` takes the next query
next_query ==
    /\ yq' = yq + 1
    /\ ypage' = 1
    /\ ypat' = 1

\* a page is answered: empty and short pages end the query
query_page(hits) ==
    /\ PageDue
    /\ yreqs' = yreqs \cup {<<yq, ypage>>}
    /\ ydisk' = persist_page(ydisk, hits, yq, ypage)
    /\ IF hits = {} \/ Cardinality(hits) < QueryPageSize \/ ypage = QueryPages
       THEN next_query
       ELSE yq' = yq /\ ypage' = ypage + 1 /\ ypat' = 1
    /\ UNCHANGED <<yfail, ypc>>
    /\ QueriesConfig
    /\ QueriesFrame

\* doaj.try_fetch_page: one pattern misses, the next one is tried
doaj_endpoint_miss ==
    /\ PageDue
    /\ yconn = "doaj" /\ ypat < ApiPatterns
    /\ ypat' = ypat + 1
    /\ yreqs' = yreqs \cup {<<yq, ypage>>}
    /\ UNCHANGED <<yq, ypage, ydisk, yfail, ypc>>
    /\ QueriesConfig
    /\ QueriesFrame

\* the page request has failed for good
PageLost == PageDue /\ (yconn = "doaj" => ypat = ApiPatterns)

query_page_failed_aborts ==
    /\ PageLost
    /\ yreqs' = yreqs \cup {<<yq, ypage>>}
    /\ yfail' = yfail \cup {[q |-> yq, page |-> ypage, disk |-> ydisk]}
    /\ ypc' = "done"
    /\ UNCHANGED <<yq, ypage, ypat, ydisk>>
    /\ QueriesConfig
    /\ QueriesFrame

\* `except Exception: log.warning(...); break` in iter_articles and
\* iter_records, `if not payload: break` in doaj.run_from_config
query_page_failed ==
    /\ PageLost
    /\ yreqs' = yreqs \cup {<<yq, ypage>>}
    /\ yfail' = yfail \cup {[q |-> yq, page |-> ypage, disk |-> ydisk]}
    /\ next_query
    /\ UNCHANGED <<ydisk, ypc>>
    /\ QueriesConfig
    /\ QueriesFrame

\* `for q in queries` is exhausted: log "done." and return
queries_done ==
    /\ ypc = "run" /\ yq > ynq
    /\ ypc' = "done"
    /\ UNCHANGED <<yq, ypage, ypat, ydisk, yreqs, yfail>>
    /\ QueriesConfig
    /\ QueriesFrame

QueriesNext ==
    \/ \E hits \in HitSets : query_page(hits)
    \/ doaj_endpoint_miss
    \/ query_page_failed
    \/ queries_done

\* C21: when the request for page p of a query fails, no later page of that
\* query is requested, every artifact on disk at that moment stays as it
\* was, and every query of the source is still requested before the run ends.
FailedPageStopsQueryOnly ==
    /\ \A f \in yfail : \A r \in yreqs : r[1] = f.q => r[2] <= f.page
    /\ \A f \in yfail : f.disk \subseteq ydisk
    /\ ypc = "done" => \A q \in 1..ynq : <<q, 1>> \in yreqs

\* page 2 of the first query failed after page 1 was persisted, and the
\* second query ran and persisted a record of its own
FailedPageStopsQueryOnlyWitness ==
    /\ ypc = "done"
    /\ \E f \in yfail :
          /\ f.q < ynq /\ f.page > 1 /\ f.disk # {}
          /\ \E d \in ydisk : d.q > f.q

(***************************************************************************)
(* URL normalisation: govcrawl.norm_url on the text urlunparse returns     *)
(***************************************************************************)
\* a URL whose host is an IPv6 literal, "[::1]"
UrlBracketed(scheme, host, port, path, frag) ==
    [Url(scheme, host, port, path, frag) EXCEPT !.brk = TRUE]

NoUrl == Url("", <<>>, 0, "", "")

NormSchemes == {"https", "HTTPS", "http"}

NormPorts == {0, 80, 443, 8080}

\* the URLs norm_url is given: registered names, and a bracketed literal
NormInputs ==
    {Url(sc, h, pt, pa, fr) : sc \in NormSchemes, h \in {HostCdc, HostCdcUpper},
                              pt \in NormPorts, pa \in {"", "/a.pdf"}, fr \in {"", "top"}}
    \cup {UrlBracketed(sc, HostLoopback6, pt, "/a.pdf", "") : sc \in NormSchemes, pt \in NormPorts}

NormIdle ==
    /\ zu = NoUrl
    /\ zfirst = NoUrl
    /\ zsecond = NoUrl
    /\ zraised = FALSE
    /\ zpc = "idle"

NormStart ==
    /\ zu \in NormInputs
    /\ zfirst = NoUrl
    /\ zsecond = NoUrl
    /\ zraised = FALSE
    /\ zpc = "new"

NormFrame == UNCHANGED <<storeVars, harvVars, keyVars, paceVars, fetchVars, fmtVars, licVars, pageVars, runVars, crawlVars, oaiVars, bioVars, kwVars, qryVars, dispVars, jsonVars, poolVars, coreVars, pmcVars, sideVars, xrefVars>>

\* norm_url(u)
norm_first ==
    /\ zpc = "new"
    /\ zpc' = "once"
    /\ zraised' = port_raises(zu)
    /\ zfirst' = IF port_raises(zu) THEN NoUrl ELSE norm_url(zu)
    /\ UNCHANGED <<zu, zsecond>>
    /\ NormFrame

\* norm_url of the text the first call returned
norm_second ==
    /\ zpc = "once" /\ ~zraised
    /\ zpc' = "twice"
    /\ zraised' = port_raises(zfirst)
    /\ zsecond' = IF port_raises(zfirst) THEN NoUrl ELSE norm_url(zfirst)
    /\ UNCHANGED <<zu, zfirst>>
    /\ NormFrame

NormNext ==
    \/ norm_first
    \/ norm_second

\* u and v differ at most in fragment, in scheme and host letter case, and
\* in a default port written out
SameButForSpelling(u, v) ==
    LET DefaultPort(w) == IF LowerWord(w.scheme) = "http" THEN 80 ELSE 443
        Port(w) == IF w.port = 0 THEN DefaultPort(w) ELSE w.port
    IN  /\ LowerWord(u.scheme) = LowerWord(v.scheme)
        /\ LowerHost(u.host) = LowerHost(v.host)
        /\ u.brk = v.brk
        /\ Port(u) = Port(v)
        /\ u.path = v.path

\* C40: norm_url(norm_url(u)) = norm_url(u) for every URL u, and URLs that
\* differ only in fragment, scheme/host letter case or an explicit default
\* port have the same normalized form.
NormUrlIdempotentCanonical ==
    /\ zpc = "twice" => ~zraised /\ zsecond = zfirst
    /\ zpc = "once" => \A v \in NormInputs : SameButForSpelling(zu, v) => norm_url(v) = zfirst

\* the item taken from q next is no shallower than the one taken now
DequeuedBreadthFirst ==
    (gpc = "crawl" /\ gq # <<>> /\ gq' # <<>>) => Head(gq).depth <= Head(gq').depth

\* C39: the crawl terminates with an empty queue, and items are dequeued in
\* non-decreasing depth order.
CrawlTerminatesBreadthFirst ==
    /\ <>(gpc = "done" /\ gq = <<>>)
    /\ [][DequeuedBreadthFirst]_vars

(***************************************************************************)
(* Dispatch: run.run_source calling fn(name, cfg, out_root) on the         *)
(* run_from_config of arxiv, pmc and zenodo                                *)
(***************************************************************************)
DispatchNames == {"arxiv", "pmc", "zenodo"}

QueryLists == {<<>>, <<"creatine">>, <<"creatine", "sleep">>}

\* a section of sources.yaml
Sections ==
    [enabled : BOOLEAN, queries : QueryLists, email : {"", "me@example.org"}]

OutRoots == {"data/raw", "out"}

EmptyDict == [k \in {} |-> <<>>]

\* d.get(key, default)
Get(d, key, default) == IF key \in DOMAIN d THEN d[key] ELSE default

\* a positional argument: a str or a dict
StrArg(text) == [kind |-> "str", text |-> text, dict |-> EmptyDict]

DictArg(d) == [kind |-> "dict", text |-> "", dict |-> d]

\* run_source: fn(name, cfg or {}, out_root)
call_args == <<StrArg(dname), DictArg(dsection), StrArg(dout)>>

DispatchIdle ==
    /\ dname = "none"
    /\ dsection = EmptyDict
    /\ dout = ""
    /\ dcfg = EmptyDict
    /\ droot = ""
    /\ dran = FALSE
    /\ dstatus = "none"
    /\ dpc = "idle"

DispatchStart ==
    /\ dname \in DispatchNames
    /\ dsection \in Sections
    /\ dout \in OutRoots
    /\ dcfg = EmptyDict
    /\ droot = ""
    /\ dran = FALSE
    /\ dstatus = "none"
    /\ dpc = "call"

DispatchFrame == UNCHANGED <<storeVars, harvVars, keyVars, paceVars, fetchVars, fmtVars, licVars, pageVars, runVars, crawlVars, oaiVars, bioVars, kwVars, qryVars, normVars, jsonVars, poolVars, coreVars, pmcVars, sideVars, xrefVars>>

DispatchInputs == UNCHANGED <<dname, dsection, dout>>

\* arxiv.run_from_config(cfg, out_root) takes two arguments: the call with
\* three raises TypeError, which run_source reports as an error
arxiv_run_from_config(args) ==
    /\ dpc = "call" /\ dname = "arxiv"
    /\ IF Len(args) > 2
       THEN dstatus' = "error" /\ dran' = FALSE /\ UNCHANGED <<dcfg, droot>>
       ELSE LET arx == Get(args[1].dict, "arxiv", EmptyDict)
            IN  /\ dcfg' = arx
                /\ droot' = args[2].text
                /\ dran' = Get(arx, "enabled", FALSE)
                /\ dstatus' \in {"ok", "error"}
    /\ dpc' = "done"
    /\ DispatchInputs
    /\ DispatchFrame

\* pmc.run_from_config(*args, **kwargs): "Parse inputs robustly"
pmc_parse_inputs(args) ==
    /\ dpc = "call" /\ dname = "pmc"
    /\ LET first_is_dict == Len(args) >= 1 /\ args[1].kind = "dict"
           cfg == IF first_is_dict THEN args[1].dict ELSE EmptyDict
           out_root == IF first_is_dict /\ Len(args) >= 2 THEN args[2].text ELSE ""
       IN  /\ dcfg' = cfg
           /\ droot' = IF out_root # "" THEN out_root ELSE "data/raw"
    /\ dpc' = "parsed"
    /\ UNCHANGED <<dran, dstatus>>
    /\ DispatchInputs
    /\ DispatchFrame

\* pmc.run_from_config from `section = (cfg or {}).get("pmc", {})` on: a
\* section that is not enabled returns {"status": "skipped"}, which
\* run_source reports as ok
pmc_run_section ==
    /\ dpc = "parsed"
    /\ LET section == Get(dcfg, "pmc", EmptyDict)
       IN  IF Get(section, "enabled", FALSE)
           THEN dran' = TRUE /\ dstatus' \in {"ok", "error"}
           ELSE dran' = FALSE /\ dstatus' = "ok"
    /\ dpc' = "done"
    /\ UNCHANGED <<dcfg, droot>>
    /\ DispatchInputs
    /\ DispatchFrame

\* zenodo.run_from_config(cfg, paths, *_args): cfg is the first argument,
\* and cfg.get on a str raises AttributeError
zenodo_run_from_config(args) ==
    /\ dpc = "call" /\ dname = "zenodo"
    /\ IF args[1].kind # "dict"
       THEN dstatus' = "error" /\ dran' = FALSE /\ UNCHANGED <<dcfg, droot>>
       ELSE /\ dcfg' = args[1].dict
            /\ droot' = "data/raw"
            /\ dran' = Get(args[1].dict, "enabled", FALSE)
            /\ dstatus' \in {"ok", "error"}
    /\ dpc' = "done"
    /\ DispatchInputs
    /\ DispatchFrame

DispatchNext ==
    \/ arxiv_run_from_config(call_args)
    \/ pmc_parse_inputs(call_args)
    \/ pmc_run_section
    \/ zenodo_run_from_config(call_args)

\* C35: for an enabled source with a registered runner, the harvest runs
\* with the source's own section and the output root given, and status ok
\* is reported only for a source whose harvest ran with that section.
OkOnlyIfHarvestRan ==
    (dpc = "done" /\ dsection.enabled /\ dstatus = "ok") =>
        dran /\ dcfg = dsection /\ droot = dout

(***************************************************************************)
(* JSON files: utils/io.py write_json and read_json                        *)
(***************************************************************************)
\* a Python object, and likewise a JSON document: its type, the text of an
\* atom, the keys and the items of a container
Value(t, a, keys, items) == [t |-> t, a |-> a, keys |-> keys, items |-> items]

Atom(t, a) == Value(t, a, <<>>, <<>>)

PyAtoms ==
    {Atom("int", "1"), Atom("float", "1.5"), Atom("float", "nan"),
     Atom("str", "a"), Atom("str", "1"), Atom("str", "e-acute"),
     Atom("str", "lone-surrogate"), Atom("bool", "true"), Atom("none", "null")}

PyKeys == {Atom("str", "a"), Atom("int", "1")}

\* containers of atoms
PyFlat ==
    {Value("list", "", <<>>, <<>>)}
    \cup {Value(t, "", <<>>, <<x>>) : t \in {"list", "tuple"}, x \in PyAtoms}
    \cup {Value("dict", "", <<k>>, <<x>>) : k \in PyKeys, x \in PyAtoms}
    \cup {Value("dict", "", <<Atom("int", "1"), Atom("str", "1")>>, <<x, Atom("str", "a")>>) :
             x \in {Atom("int", "1"), Atom("str", "a")}}

\* containers of containers
PyNested ==
    {Value("list", "", <<>>, <<c>>) : c \in PyFlat}
    \cup {Value("dict", "", <<Atom("str", "a")>>, <<c>>) : c \in PyFlat}

PyObjects == PyAtoms \cup PyFlat \cup PyNested

\* the key of a JSON object that json.dumps writes for a dict key
key_text(k) == k.a

\* json.dumps(obj, ensure_ascii=False, indent=2), as the document it writes
RECURSIVE dumps(_)
dumps(o) ==
    CASE o.t \in {"list", "tuple"} ->
             Value("array", "", <<>>, [i \in 1..Len(o.items) |-> dumps(o.items[i])])
      [] o.t = "dict" ->
             Value("object", "", [i \in 1..Len(o.keys) |-> key_text(o.keys[i])],
                   [i \in 1..Len(o.items) |-> dumps(o.items[i])])
      [] o.t \in {"int", "float"} -> Atom("number", o.a)
      [] o.t = "str" -> Atom("string", o.a)
      [] OTHER -> Atom("literal", o.a)

\* the positions of an object's members that json.loads keeps: of members
\* with the same name the last one
KeptMembers(keys) ==
    SelectSeq([i \in 1..Len(keys) |-> i],
              LAMBDA i : \A j \in (i + 1)..Len(keys) : keys[j] # keys[i])

\* json.loads
RECURSIVE loads(_)
loads(d) ==
    CASE d.t = "array" ->
             Value("list", "", <<>>, [i \in 1..Len(d.items) |-> loads(d.items[i])])
      [] d.t = "object" ->
             LET kept == KeptMembers(d.keys)
             IN  Value("dict", "", [i \in 1..Len(kept) |-> Atom("str", d.keys[kept[i]])],
                       [i \in 1..Len(kept) |-> loads(d.items[kept[i]])])
      [] d.t = "number" -> Atom(IF d.a = "1" THEN "int" ELSE "float", d.a)
      [] d.t = "string" -> Atom("str", d.a)
      [] OTHER -> Atom(IF d.a = "null" THEN "none" ELSE "bool", d.a)

\* the object holds an atom of the given type and text, as a value or a key
RECURSIVE Holds(_, _, _)
Holds(o, t, a) ==
    \/ o.t = t /\ o.a = a
    \/ \E i \in 1..Len(o.keys) : o.keys[i].t = t /\ o.keys[i].a = a
    \/ \E i \in 1..Len(o.items) : Holds(o.items[i], t, a)

\* str.encode("utf-8") raises UnicodeEncodeError on a lone surrogate
encode_raises(o) == Holds(o, "str", "lone-surrogate")

\* Python ==: NaN is unequal to itself
PyEq(x, y) == x = y /\ ~Holds(x, "float", "nan")

NoValue == Atom("none", "null")

JsonIdle ==
    /\ jobj = NoValue
    /\ jparent = ""
    /\ jdirs = {}
    /\ jhasfile = FALSE
    /\ jfile = NoValue
    /\ jread = NoValue
    /\ jraised = FALSE
    /\ jpc = "idle"

\* tmp_path exists, tmp_path/sub does not
JsonStart ==
    /\ jobj \in PyObjects
    /\ jparent \in {"tmp", "tmp/sub"}
    /\ jdirs = {"tmp"}
    /\ jhasfile = FALSE
    /\ jfile = NoValue
    /\ jread = NoValue
    /\ jraised = FALSE
    /\ jpc = "new"

JsonFrame == UNCHANGED <<storeVars, harvVars, keyVars, paceVars, fetchVars, fmtVars, licVars, pageVars, runVars, crawlVars, oaiVars, bioVars, kwVars, qryVars, normVars, dispVars, poolVars, coreVars, pmcVars, sideVars, xrefVars>>

\* write_text into a directory that has to exist already
write_json_no_mkdir ==
    /\ jpc = "new"
    /\ IF jparent \notin jdirs
       THEN jraised' = TRUE /\ jpc' = "done" /\ UNCHANGED <<jhasfile, jfile>>
       ELSE /\ jhasfile' = TRUE
            /\ IF encode_raises(jobj)
               THEN jraised' = TRUE /\ jpc' = "done" /\ UNCHANGED jfile
               ELSE jfile' = dumps(jobj) /\ jpc' = "written" /\ UNCHANGED jraised
    /\ UNCHANGED <<jobj, jparent, jdirs, jread>>
    /\ JsonFrame

\* io.write_json: mkdir(parents=True, exist_ok=True), then write_text, which
\* opens the file before it encodes the text
write_json ==
    /\ jpc = "new"
    /\ jdirs' = jdirs \cup {jparent}
    /\ jhasfile' = TRUE
    /\ IF encode_raises(jobj)
       THEN jraised' = TRUE /\ jpc' = "done" /\ UNCHANGED jfile
       ELSE jfile' = dumps(jobj) /\ jpc' = "written" /\ UNCHANGED jraised
    /\ UNCHANGED <<jobj, jparent, jread>>
    /\ JsonFrame

\* io.read_json
read_json ==
    /\ jpc = "written"
    /\ jread' = loads(jfile)
    /\ jpc' = "done"
    /\ UNCHANGED <<jobj, jparent, jdirs, jhasfile, jfile, jraised>>
    /\ JsonFrame

JsonNext ==
    \/ write_json
    \/ read_json

\* the object is made of dicts with distinct str keys, lists, strings that
\* encode as UTF-8, ints, finite floats, booleans and None
RECURSIVE IsPlain(_)
IsPlain(o) ==
    /\ o.t # "tuple"
    /\ ~(o.t = "float" /\ o.a = "nan")
    /\ ~(o.t = "str" /\ o.a = "lone-surrogate")
    /\ \A i \in 1..Len(o.keys) : o.keys[i].t = "str" /\ o.keys[i].a # "lone-surrogate"
    /\ \A i \in 1..Len(o.keys) : \A j \in 1..Len(o.keys) : i # j => o.keys[i] # o.keys[j]
    /\ \A i \in 1..Len(o.items) : IsPlain(o.items[i])

\* C31 as stated: write_json followed by read_json on the same path returns
\* an object equal to the one written, for every JSON-serializable object,
\* the parent directory being created when it is missing.
JsonRoundTrip ==
    jpc = "done" => ~jraised /\ jparent \in jdirs /\ PyEq(jread, jobj)

\* C31: write_json followed by read_json on the same path returns an object
\* equal to the one written, for every object made of dicts with distinct
\* string keys, lists, UTF-8 encodable strings, ints, finite floats,
\* booleans and None, the parent directory being created when it is missing.
JsonRoundTripPlain ==
    (jpc = "done" /\ IsPlain(jobj)) => ~jraised /\ jparent \in jdirs /\ PyEq(jread, jobj)

\* a dict holding a list was written under a directory that did not exist
JsonRoundTripPlainWitness ==
    /\ jpc = "done" /\ IsPlain(jobj)
    /\ jparent = "tmp/sub"
    /\ jobj.t = "dict" /\ jobj.items[1].t = "list" /\ jobj.items[1].items # <<>>
    /\ jread = jobj

(***************************************************************************)
(* Worker pool: biorxiv.RateLimiter.wait and arxiv.throttle called by      *)
(* several workers, and core_api.fetch_one under ThreadPoolExecutor        *)
(***************************************************************************)
MaxClock == 5

\* delay / _os_min_interval
MinInterval == 2

Workers == {1, 2}

PoolImpls == {"biorxiv", "arxiv", "core"}

PoolIdle ==
    /\ timpl = "none"
    /\ tclock = 0
    /\ tlast = 0
    /\ twake = <<>>
    /\ twpc = <<>>
    /\ tsent = <<>>

\* _last starts at 0.0 and the clock far from it
PoolStart ==
    /\ timpl \in PoolImpls
    /\ tclock = MinInterval
    /\ tlast = 0
    /\ twake = [w \in Workers |-> 0]
    /\ twpc = [w \in Workers |-> "idle"]
    /\ tsent = <<>>

PoolFrame == UNCHANGED <<storeVars, harvVars, keyVars, paceVars, fetchVars, fmtVars, licVars, pageVars, runVars, crawlVars, oaiVars, bioVars, kwVars, qryVars, normVars, dispVars, jsonVars, coreVars, pmcVars, sideVars, xrefVars>>

\* time passes
clock_tick ==
    /\ timpl # "none" /\ tclock < MaxClock
    /\ tclock' = tclock + 1
    /\ UNCHANGED <<timpl, tlast, twake, twpc, tsent>>
    /\ PoolFrame

\* wait / throttle: now = time.time(); delta = now - last; the comparison
wait_read(w) ==
    /\ timpl \in {"biorxiv", "arxiv"} /\ twpc[w] = "idle"
    /\ IF tclock - tlast < MinInterval
       THEN /\ twake' = [twake EXCEPT ![w] = tclock + (MinInterval - (tclock - tlast))]
            /\ twpc' = [twpc EXCEPT ![w] = "sleep"]
       ELSE /\ twpc' = [twpc EXCEPT ![w] = "stamp"]
            /\ UNCHANGED twake
    /\ UNCHANGED <<timpl, tclock, tlast, tsent>>
    /\ PoolFrame

\* wait / throttle: time.sleep(...) returns
wait_sleep(w) ==
    /\ twpc[w] = "sleep" /\ tclock >= twake[w]
    /\ twpc' = [twpc EXCEPT ![w] = "stamp"]
    /\ UNCHANGED <<timpl, tclock, tlast, twake, tsent>>
    /\ PoolFrame

\* wait / throttle: last = time.time()
wait_stamp(w) ==
    /\ twpc[w] = "stamp"
    /\ tlast' = tclock
    /\ twpc' = [twpc EXCEPT ![w] = "send"]
    /\ UNCHANGED <<timpl, tclock, twake, tsent>>
    /\ PoolFrame

\* the request that follows wait / throttle
worker_get(w) ==
    /\ twpc[w] = "send"
    /\ tsent' = Append(tsent, tclock)
    /\ twpc' = [twpc EXCEPT ![w] = "done"]
    /\ UNCHANGED <<timpl, tclock, tlast, twake>>
    /\ PoolFrame

\* core_api.fetch_one: s.get(url, ...) with no limiter before it
fetch_one_get(w) ==
    /\ timpl = "core" /\ twpc[w] = "idle"
    /\ tsent' = Append(tsent, tclock)
    /\ twpc' = [twpc EXCEPT ![w] = "done"]
    /\ UNCHANGED <<timpl, tclock, tlast, twake>>
    /\ PoolFrame

PoolNext ==
    \/ clock_tick
    \/ \E w \in Workers : wait_read(w)
    \/ \E w \in Workers : wait_sleep(w)
    \/ \E w \in Workers : wait_stamp(w)
    \/ \E w \in Workers : worker_get(w)
    \/ \E w \in Workers : fetch_one_get(w)

\* C32: with several workers on one limiter, no two requests are issued
\* less than the minimum interval apart.
RequestsKeepMinInterval ==
    \A i \in 1..Len(tsent) : \A j \in 1..Len(tsent) :
        i < j => tsent[j] - tsent[i] >= MinInterval

(***************************************************************************)
(* CORE worker pool: core_api.fetch_one run by ThreadPoolExecutor.map over *)
(* the candidates of a query; utils_net.slugify                            *)
(***************************************************************************)
UtilsSlugMaxLen == 80

IsSlugChar(c) == IsLower(c) \/ c \in Digits

\* re.sub(r"[^a-z0-9]+", "_", s)
RECURSIVE SubRuns(_, _)
SubRuns(s, inRun) ==
    IF s = <<>> THEN <<>>
    ELSE IF IsSlugChar(Head(s)) THEN <<Head(s)>> \o SubRuns(Tail(s), FALSE)
    ELSE IF inRun THEN SubRuns(Tail(s), TRUE)
    ELSE <<"_">> \o SubRuns(Tail(s), TRUE)

\* str.strip("_")
RECURSIVE StripUnderscores(_)
StripUnderscores(s) ==
    IF s # <<>> /\ Head(s) = "_" THEN StripUnderscores(Tail(s))
    ELSE IF s # <<>> /\ s[Len(s)] = "_" THEN StripUnderscores(SubSeq(s, 1, Len(s) - 1))
    ELSE s

\* utils_net.slugify
utils_slugify(s) == Take(StripUnderscores(SubRuns(LowerSeq(s), FALSE)), UtilsSlugMaxLen)

\* h.get("id"): missing, or a text
IdNone == [none |-> TRUE, text |-> <<>>]

IdText(t) == [none |-> FALSE, text |-> t]

CoreIds == {IdNone, IdText(<<>>), IdText(<<"1", "2">>), IdText(<<"a", "/", "b">>), IdText(<<"a", "-", "b">>)}

CoreTitles == {<<>>, <<"T">>}

CoreUrls == {<<"u", "1">>, <<"u", "2">>}

Candidate(id, title, url) == [id |-> id, title |-> title, url |-> url]

Candidates == {Candidate(i, t, u) : i \in CoreIds, t \in CoreTitles, u \in CoreUrls}

\* str(id_)
str_of(id) == IF id.none THEN <<"N", "o", "n", "e">> ELSE id.text

\* fetch_one: slugify((str(id_) or title) or url)
fnbase(c) ==
    utils_slugify(IF str_of(c.id) # <<>> THEN str_of(c.id)
                  ELSE IF c.title # <<>> THEN c.title
                  ELSE c.url)

\* out_dir / f"{fnbase}.pdf" and out_dir / f"{fnbase}.meta.json"
pdf_path(c) == <<fnbase(c), ".pdf">>

meta_path(c) == <<fnbase(c), ".meta.json">>

Tasks == {1, 2}

CoreIdle ==
    /\ ucands = <<>>
    /\ uwpc = <<>>
    /\ uwrites = {}

\* two distinct candidates of one query
CoreStart ==
    /\ ucands \in {<<a, b>> : a \in Candidates, b \in Candidates}
    /\ ucands[1] # ucands[2]
    /\ uwpc = [w \in Tasks |-> "get"]
    /\ uwrites = {}

CoreFrame == UNCHANGED <<storeVars, harvVars, keyVars, paceVars, fetchVars, fmtVars, licVars, pageVars, runVars, crawlVars, oaiVars, bioVars, kwVars, qryVars, normVars, dispVars, jsonVars, poolVars, pmcVars, sideVars, xrefVars>>

\* fetch_one: the response is not ok or not a PDF, or s.get raised: return 0
core_fetch_rejected(w) ==
    /\ w \in DOMAIN uwpc /\ uwpc[w] = "get"
    /\ uwpc' = [uwpc EXCEPT ![w] = "done"]
    /\ UNCHANGED <<ucands, uwrites>>
    /\ CoreFrame

\* fetch_one: the response is a PDF
core_fetch_pdf(w) ==
    /\ w \in DOMAIN uwpc /\ uwpc[w] = "get"
    /\ uwpc' = [uwpc EXCEPT ![w] = "pdf"]
    /\ UNCHANGED <<ucands, uwrites>>
    /\ CoreFrame

\* fetch_one: safe_write_bytes(out_dir / f"{fnbase}.pdf", r.content)
core_write_pdf(w) ==
    /\ w \in DOMAIN uwpc /\ uwpc[w] = "pdf"
    /\ uwrites' = uwrites \cup {<<pdf_path(ucands[w]), w>>}
    /\ uwpc' = [uwpc EXCEPT ![w] = "meta"]
    /\ UNCHANGED ucands
    /\ CoreFrame

\* fetch_one: safe_write_json(out_dir / f"{fnbase}.meta.json", {...}); return 1
core_write_meta(w) ==
    /\ w \in DOMAIN uwpc /\ uwpc[w] = "meta"
    /\ uwrites' = uwrites \cup {<<meta_path(ucands[w]), w>>}
    /\ uwpc' = [uwpc EXCEPT ![w] = "done"]
    /\ UNCHANGED ucands
    /\ CoreFrame

CoreNext ==
    \/ \E w \in Tasks : core_fetch_rejected(w)
    \/ \E w \in Tasks : core_fetch_pdf(w)
    \/ \E w \in Tasks : core_write_pdf(w)
    \/ \E w \in Tasks : core_write_meta(w)

\* C33: the tasks of two distinct candidates of one query never write the
\* same file path, a missing id included.
TasksWriteDistinctPaths ==
    \A x \in uwrites : \A y \in uwrites : x[1] = y[1] => x[2] = y[2]

\* the final metadata.json of an arXiv entry with a PDF URL
ArxivMeta(id) == disk[<<id, "meta">>]

ArxivFinal(id) == conn = "arxiv" /\ attrs[id].url # "" /\ ArxivMeta(id).exists

MaxTerms == 2

MaxIdsPerTerm == 2

PmcTerms == {"sleep loss", "sleep_loss"}

PmcIds == {1, 2}

PmcTags == {"CC-BY", "CC-BY-NC", "none"}

PmcAllowed == {"CC-BY"}

\* re.sub(r"[^a-zA-Z0-9._-]+", "_", term)[:100].strip("_")
safe_term(term) == IF term = "sleep loss" THEN "sleep_loss" ELSE term

TermLists2 == UNION {[1..n -> PmcTerms] : n \in 0..MaxTerms}

IdLists == UNION {[1..n -> PmcIds] : n \in 0..MaxIdsPerTerm}

ZeroCounts ==
    [total_ids |-> 0, saved |-> 0, skipped_license |-> 0, xml_fail |-> 0, pdf_fail |-> 0]

PmcIdle ==
    /\ mterms = <<>>
    /\ mpermit = FALSE
    /\ mterm = 0
    /\ mids = <<>>
    /\ mfound = 0
    /\ mcounts = ZeroCounts
    /\ mwrites = 0
    /\ mfiles = {}
    /\ mpc = "idle"

PmcStart ==
    /\ mterms \in TermLists2
    /\ mpermit \in BOOLEAN
    /\ mterm = 1
    /\ mids = <<>>
    /\ mfound = 0
    /\ mcounts = ZeroCounts
    /\ mwrites = 0
    /\ mfiles = {}
    /\ mpc = "search"

PmcFrame == UNCHANGED <<storeVars, harvVars, keyVars, paceVars, fetchVars, fmtVars, licVars, pageVars, runVars, crawlVars, oaiVars, bioVars, kwVars, qryVars, normVars, dispVars, jsonVars, poolVars, coreVars, sideVars, xrefVars>>

PmcConfig == UNCHANGED <<mterms, mpermit>>

\* harvest_pmc: esearch_pmc_ids raised: `continue`
esearch_failed ==
    /\ mpc = "search" /\ mterm <= Len(mterms)
    /\ mterm' = mterm + 1
    /\ UNCHANGED <<mids, mfound, mcounts, mwrites, mfiles, mpc>>
    /\ PmcConfig
    /\ PmcFrame

\* harvest_pmc: total_ids += len(ids)
esearch_returned(ids) ==
    /\ mpc = "search" /\ mterm <= Len(mterms)
    /\ mids' = ids
    /\ mfound' = mfound + Len(ids)
    /\ mcounts' = [mcounts EXCEPT !.total_ids = @ + Len(ids)]
    /\ mpc' = "ids"
    /\ UNCHANGED <<mterm, mwrites, mfiles>>
    /\ PmcConfig
    /\ PmcFrame

\* harvest_pmc: which way a pmcid goes
outcome_of(xmlOk, tag, pdfOk) ==
    IF ~xmlOk THEN "xml_fail"
    ELSE IF ~(tag \in PmcAllowed \/ (mpermit /\ tag = "none")) THEN "skipped_license"
    ELSE IF ~pdfOk THEN "pdf_fail"
    ELSE "saved"

\* only what was saved is counted
count_outcome_saved_only(counts, outcome) ==
    IF outcome = "saved" THEN [counts EXCEPT ![outcome] = @ + 1] ELSE counts

\* harvest_pmc: xml_fail += 1 | skipped_license += 1 | pdf_fail += 1 | saved += 1
count_outcome(counts, outcome) == [counts EXCEPT ![outcome] = @ + 1]

\* harvest_pmc: the body of `for pmcid in ids`
pmc_fetch_id(xmlOk, tag, pdfOk) ==
    LET outcome == outcome_of(xmlOk, tag, pdfOk)
    IN  /\ mpc = "ids" /\ mids # <<>>
        /\ mcounts' = count_outcome(mcounts, outcome)
        /\ mwrites' = IF outcome = "saved" THEN mwrites + 1 ELSE mwrites
        /\ mfiles' = IF outcome = "saved"
                     THEN mfiles \cup {<<safe_term(mterms[mterm]), Head(mids)>>}
                     ELSE mfiles
        /\ mids' = Tail(mids)
        /\ UNCHANGED <<mterm, mfound, mpc>>
        /\ PmcConfig
        /\ PmcFrame

\* harvest_pmc: the ids of a query are done, the next query is searched
pmc_next_term ==
    /\ mpc = "ids" /\ mids = <<>>
    /\ mterm' = mterm + 1
    /\ mpc' = "search"
    /\ UNCHANGED <<mids, mfound, mcounts, mwrites, mfiles>>
    /\ PmcConfig
    /\ PmcFrame

\* harvest_pmc: return the counters
pmc_return ==
    /\ mpc = "search" /\ mterm > Len(mterms)
    /\ mpc' = "returned"
    /\ UNCHANGED <<mterm, mids, mfound, mcounts, mwrites, mfiles>>
    /\ PmcConfig
    /\ PmcFrame

PmcNext ==
    \/ esearch_failed
    \/ \E ids \in IdLists : esearch_returned(ids)
    \/ \E xmlOk \in BOOLEAN, tag \in PmcTags, pdfOk \in BOOLEAN : pmc_fetch_id(xmlOk, tag, pdfOk)
    \/ pmc_next_term
    \/ pmc_return

MaxRecords == 2

ItemDirs == {1, 2}

\* rec.get("license"): None or a string
LicNone == [some |-> FALSE, text |-> <<>>]

Lic(text) == [some |-> TRUE, text |-> text]

BiorxivLicenses ==
    { LicNone,
      Lic(<<>>),
      Lic(<<"c", "c", "_", "b", "y">>),
      Lic(<<"c", "c", "_", "b", "y", "_", "n", "c", "_", "n", "d">>),
      Lic(<<"c", "c", "_", "b", "y", "_", "n", "d">>),
      Lic(<<"C", "C", "0">>),
      Lic(<<"c", "c", "_", "n", "o">>) }

\* \b at index i of t
WordBoundary(t, i) ==
    (i - 1 >= 1 /\ IsWordChar(t[i - 1])) # (i <= Len(t) /\ IsWordChar(t[i]))

\* [-_ ]?
CcSeps == {<<>>, <<"-">>, <<"_">>, <<" ">>}

\* (by|by[-]nc|by[-]sa|by[-]nc[-]sa|by[_-]nd|0)
CcKinds ==
    { <<"b", "y">>, <<"b", "y", "-", "n", "c">>, <<"b", "y", "-", "s", "a">>, <<"b", "y", "-", "n", "c", "-", "s", "a">>, <<"b", "y", "_", "n", "d">>, <<"b", "y", "-", "n", "d">>, <<"0">> }

\* re.search(r"\bcc[-_ ]?(by|by[-]nc|by[-]sa|by[-]nc[-]sa|by[_-]nd|0)\b", l)
MatchCcWord(t) ==
    \E i \in 1..Len(t), a \in CcSeps, k \in CcKinds :
        LET pat == <<"c", "c">> \o a \o k
        IN  HasAt(t, i, pat) /\ WordBoundary(t, i) /\ WordBoundary(t, i + Len(pat))

\* biorxiv.license_allows_download
license_allows_download(lic) ==
    IF ~lic.some \/ lic.text = <<>>
    THEN FALSE
    ELSE LET l == LowerSeq(Strip(lic.text))
         IN  \/ Contains(l, <<"c", "r", "e", "a", "t", "i", "v", "e", "c", "o", "m", "m", "o", "n", "s">>)
             \/ MatchCcWord(l)
             \/ Contains(l, <<"c", "c", "0">>)
             \/ Contains(l, <<"p", "u", "b", "l", "i", "c", " ", "d", "o", "m", "a", "i", "n">>)

Reasons == {"downloaded", "download_failed_or_not_pdf", "license_not_allowed_or_unknown"}

\* what try_download_pdf returns: None, b"" or the body
DownloadResults == {"None", "empty", "bytes"}

\* an item directory as the harvest leaves it
ItemStates ==
    { [pdf |-> FALSE, info |-> "absent"],
      [pdf |-> TRUE, info |-> "downloaded"],
      [pdf |-> FALSE, info |-> "download_failed_or_not_pdf"],
      [pdf |-> FALSE, info |-> "license_not_allowed_or_unknown"] }

NoRecord == [done |-> FALSE, dir |-> 1, lic |-> LicNone, url |-> FALSE, had |-> FALSE, req |-> FALSE]

SidecarIdle ==
    /\ vdl = FALSE
    /\ vn = 0
    /\ vmeta = <<>>
    /\ vpdf = <<>>
    /\ vinfo = <<>>
    /\ vreqs = 0
    /\ vlast = NoRecord
    /\ vpc = "idle"

SidecarStart ==
    /\ vdl \in BOOLEAN
    /\ vn = 0
    /\ \E st \in [ItemDirs -> ItemStates] :
          /\ vmeta = [d \in ItemDirs |-> st[d].info # "absent"]
          /\ vpdf = [d \in ItemDirs |-> st[d].pdf]
          /\ vinfo = [d \in ItemDirs |-> st[d].info]
    /\ vreqs = 0
    /\ vlast = NoRecord
    /\ vpc = "loop"

SidecarFrame == UNCHANGED <<storeVars, harvVars, keyVars, paceVars, fetchVars, fmtVars, licVars, pageVars, runVars, crawlVars, oaiVars, bioVars, kwVars, qryVars, normVars, dispVars, jsonVars, poolVars, coreVars, pmcVars, xrefVars>>

\* harvest_biorxiv: `if not fits_keywords(rec, keywords): continue` and
\* `if not doi: continue`
biorxiv_record_skipped ==
    /\ vpc = "loop" /\ vn < MaxRecords
    /\ vn' = vn + 1
    /\ vlast' = NoRecord
    /\ UNCHANGED <<vdl, vmeta, vpdf, vinfo, vreqs, vpc>>
    /\ SidecarFrame

\* the reason harvest_biorxiv writes once try_download_pdf has returned
download_reason_always(pdf_bytes) == "downloaded"

download_reason(pdf_bytes) ==
    IF pdf_bytes = "bytes" THEN "downloaded" ELSE "download_failed_or_not_pdf"

\* harvest_biorxiv, one record with a DOI: metadata.json is written, then
\* the PDF branch
biorxiv_record(d, lic, url, pdf_bytes) ==
    LET had == vpdf[d]
        try == vdl /\ ~had
        fetch == try /\ url /\ license_allows_download(lic)
        deny == try /\ url /\ ~license_allows_download(lic)
    IN  /\ vpc = "loop" /\ vn < MaxRecords
        /\ vn' = vn + 1
        /\ vmeta' = [vmeta EXCEPT ![d] = TRUE]
        /\ vpdf' = IF fetch /\ pdf_bytes = "bytes" THEN [vpdf EXCEPT ![d] = TRUE] ELSE vpdf
        /\ vinfo' = IF fetch THEN [vinfo EXCEPT ![d] = download_reason(pdf_bytes)]
                    ELSE IF deny THEN [vinfo EXCEPT ![d] = "license_not_allowed_or_unknown"]
                    ELSE vinfo
        /\ vreqs' = IF fetch THEN vreqs + 1 ELSE vreqs
        /\ vlast' = [done |-> TRUE, dir |-> d, lic |-> lic, url |-> url, had |-> had, req |-> fetch]
        /\ UNCHANGED <<vdl, vpc>>
        /\ SidecarFrame

\* harvest_biorxiv: `if not coll: break`
biorxiv_collection_done ==
    /\ vpc = "loop"
    /\ vpc' = "done"
    /\ UNCHANGED <<vdl, vn, vmeta, vpdf, vinfo, vreqs, vlast>>
    /\ SidecarFrame

SidecarNext ==
    \/ biorxiv_record_skipped
    \/ \E d \in ItemDirs, lic \in BiorxivLicenses, url \in BOOLEAN, pdf_bytes \in DownloadResults :
          biorxiv_record(d, lic, url, pdf_bytes)
    \/ biorxiv_collection_done

\* the last record handled had a PDF URL and no paper.pdf on disk
FreshPdfRecord == vlast.done /\ vlast.url /\ ~vlast.had

\* the sidecar and the PDF of the last record agree
SidecarAgrees ==
    /\ vinfo[vlast.dir] \in Reasons
    /\ vpdf[vlast.dir] <=> vinfo[vlast.dir] = "downloaded"
    /\ ~license_allows_download(vlast.lic) => ~vlast.req

MaxRows == 3

MaxCrossrefPages == 3

Dois == {1, 2, 3}

\* the items of a page, by DOI; 0 is an item without a "DOI" key
CrossrefItems == Dois \cup {0}

\* the non-empty pages Crossref may answer
CrossrefPages == UNION {[1..n -> CrossrefItems] : n \in 1..MaxRows}

CrossrefIdle ==
    /\ xrows = 0
    /\ xpages = 0
    /\ xseen = 0
    /\ xdois = {}
    /\ xlookups = <<>>
    /\ xerrors = 0
    /\ xpc = "idle"

CrossrefStart ==
    /\ xrows \in 1..MaxRows
    /\ xpages = 0
    /\ xseen = 0
    /\ xdois = {}
    /\ xlookups = [d \in Dois |-> 0]
    /\ xerrors = 0
    /\ xpc = "fetch"

CrossrefFrame == UNCHANGED <<storeVars, harvVars, keyVars, paceVars, fetchVars, fmtVars, licVars, pageVars, runVars, crawlVars, oaiVars, bioVars, kwVars, qryVars, normVars, dispVars, jsonVars, poolVars, coreVars, pmcVars, sideVars>>

\* harvest_unpaywall's loop body over the items of one page: an item
\* without a DOI or with a DOI in seen_dois is passed over, any other is
\* added to seen_dois and looked up
RECURSIVE NewDois(_, _)
NewDois(page, known) ==
    IF page = <<>> THEN <<>>
    ELSE IF Head(page) \notin Dois \/ Head(page) \in known
         THEN NewDois(Tail(page), known)
         ELSE <<Head(page)>> \o NewDois(Tail(page), known \cup {Head(page)})

Elems(q) == {q[i] : i \in 1..Len(q)}

\* crossref_iter: raise_for_status raises; the generator, and with it
\* harvest_unpaywall, ends with the exception
crossref_request_failed ==
    /\ xpc = "fetch" /\ xpages < MaxCrossrefPages
    /\ xpages' = xpages + 1
    /\ xpc' = "raised"
    /\ UNCHANGED <<xrows, xseen, xdois, xlookups, xerrors>>
    /\ CrossrefFrame

\* crossref_iter: `if not items: break`
crossref_page_empty ==
    /\ xpc = "fetch" /\ xpages < MaxCrossrefPages
    /\ xpages' = xpages + 1
    /\ xpc' = "done"
    /\ UNCHANGED <<xrows, xseen, xdois, xlookups, xerrors>>
    /\ CrossrefFrame

\* crossref_iter yields every item of the page; harvest_unpaywall looks up
\* each new DOI (failed says how many of the lookups raised); then the
\* cursor and the guardrail `if rows and seen >= rows: break` decide whether
\* another page is requested; a page holds at most the requested rows
crossref_page(page, cursor, failed) ==
    LET new == NewDois(page, xdois)
        yielded == xseen + Len(page)
    IN  /\ xpc = "fetch" /\ xpages < MaxCrossrefPages
        /\ Len(page) <= xrows
        /\ failed <= Len(new)
        /\ xpages' = xpages + 1
        /\ xseen' = yielded
        /\ xdois' = xdois \cup Elems(new)
        /\ xlookups' = [d \in Dois |-> IF d \in Elems(new) THEN xlookups[d] + 1 ELSE xlookups[d]]
        /\ xerrors' = xerrors + failed
        /\ xpc' = IF ~cursor \/ yielded >= xrows THEN "done" ELSE "fetch"
        /\ UNCHANGED xrows
        /\ CrossrefFrame

CrossrefNext ==
    \/ crossref_request_failed
    \/ crossref_page_empty
    \/ \E page \in CrossrefPages, cursor \in BOOLEAN, failed \in 0..MaxRows :
          crossref_page(page, cursor, failed)

\* C38: the Crossref stage yields at most max_rows items for the topic,
\* whatever the sizes of the pages (each of at most the requested rows), and
\* each distinct DOI is looked up against Unpaywall at most once
YieldsAtMostMaxRows ==
    /\ xseen <= xrows
    /\ \A d \in DOMAIN xlookups : xlookups[d] <= 1

UnknownLicense(id) == attrs[id].lic # "cc-by"

NoPartialFileAtFinalPath ==
    final = wprev \/ final = wdata

(***************************************************************************)
(* Specifications: one per machine, the other machines held idle           *)
(***************************************************************************)
Init == HarvInit /\ StoreIdle /\ KeyIdle /\ PaceIdle /\ FetchIdle /\ FormatIdle /\ LicenseIdle /\ PagingIdle /\ RunnerIdle /\ CrawlIdle /\ OaiIdle /\ BiorxivIdle /\ KeywordIdle /\ QueriesIdle /\ NormIdle /\ DispatchIdle /\ JsonIdle /\ PoolIdle /\ CoreIdle /\ PmcIdle /\ SidecarIdle /\ CrossrefIdle

Spec == Init /\ [][Next]_vars

StoreInit == StoreIdle /\ HarvIdle /\ KeyIdle /\ PaceIdle /\ FetchIdle /\ FormatIdle /\ LicenseIdle /\ PagingIdle /\ RunnerIdle /\ CrawlIdle /\ OaiIdle /\ BiorxivIdle /\ KeywordIdle /\ QueriesIdle /\ NormIdle /\ DispatchIdle /\ JsonIdle /\ PoolIdle /\ CoreIdle /\ PmcIdle /\ SidecarIdle /\ CrossrefIdle

SpecStore == StoreInit /\ [][StoreNext]_vars

KeyInit == KeyStart /\ StoreIdle /\ HarvIdle /\ PaceIdle /\ FetchIdle /\ FormatIdle /\ LicenseIdle /\ PagingIdle /\ RunnerIdle /\ CrawlIdle /\ OaiIdle /\ BiorxivIdle /\ KeywordIdle /\ QueriesIdle /\ NormIdle /\ DispatchIdle /\ JsonIdle /\ PoolIdle /\ CoreIdle /\ PmcIdle /\ SidecarIdle /\ CrossrefIdle

SpecKeys == KeyInit /\ [][KeyNext]_vars

PaceInit == PaceStart /\ StoreIdle /\ HarvIdle /\ KeyIdle /\ FetchIdle /\ FormatIdle /\ LicenseIdle /\ PagingIdle /\ RunnerIdle /\ CrawlIdle /\ OaiIdle /\ BiorxivIdle /\ KeywordIdle /\ QueriesIdle /\ NormIdle /\ DispatchIdle /\ JsonIdle /\ PoolIdle /\ CoreIdle /\ PmcIdle /\ SidecarIdle /\ CrossrefIdle

SpecPace == PaceInit /\ [][PaceNext]_vars

FetchInit == FetchStart /\ StoreIdle /\ HarvIdle /\ KeyIdle /\ PaceIdle /\ FormatIdle /\ LicenseIdle /\ PagingIdle /\ RunnerIdle /\ CrawlIdle /\ OaiIdle /\ BiorxivIdle /\ KeywordIdle /\ QueriesIdle /\ NormIdle /\ DispatchIdle /\ JsonIdle /\ PoolIdle /\ CoreIdle /\ PmcIdle /\ SidecarIdle /\ CrossrefIdle

SpecFetch == FetchInit /\ [][FetchNext]_vars

FormatInit == FormatStart /\ StoreIdle /\ KeyIdle /\ PaceIdle /\ FetchIdle /\ HarvIdle /\ LicenseIdle /\ PagingIdle /\ RunnerIdle /\ CrawlIdle /\ OaiIdle /\ BiorxivIdle /\ KeywordIdle /\ QueriesIdle /\ NormIdle /\ DispatchIdle /\ JsonIdle /\ PoolIdle /\ CoreIdle /\ PmcIdle /\ SidecarIdle /\ CrossrefIdle

SpecFormat == FormatInit /\ [][FormatNext]_vars

LicenseInit == LicenseStart /\ StoreIdle /\ KeyIdle /\ PaceIdle /\ FetchIdle /\ FormatIdle /\ HarvIdle /\ PagingIdle /\ RunnerIdle /\ CrawlIdle /\ OaiIdle /\ BiorxivIdle /\ KeywordIdle /\ QueriesIdle /\ NormIdle /\ DispatchIdle /\ JsonIdle /\ PoolIdle /\ CoreIdle /\ PmcIdle /\ SidecarIdle /\ CrossrefIdle

SpecLicense == LicenseInit /\ [][LicenseNext]_vars

PagingInit == PagingStart /\ StoreIdle /\ KeyIdle /\ PaceIdle /\ FetchIdle /\ FormatIdle /\ LicenseIdle /\ HarvIdle /\ RunnerIdle /\ CrawlIdle /\ OaiIdle /\ BiorxivIdle /\ KeywordIdle /\ QueriesIdle /\ NormIdle /\ DispatchIdle /\ JsonIdle /\ PoolIdle /\ CoreIdle /\ PmcIdle /\ SidecarIdle /\ CrossrefIdle

SpecPaging == PagingInit /\ [][PagingNext]_vars


\* the loop of a running harvest always takes its next step
SpecPagingFair == PagingInit /\ [][PagingNext]_vars /\ WF_vars(PagingNext)

RunnerInit == RunnerStart /\ StoreIdle /\ KeyIdle /\ PaceIdle /\ FetchIdle /\ FormatIdle /\ LicenseIdle /\ PagingIdle /\ HarvIdle /\ CrawlIdle /\ OaiIdle /\ BiorxivIdle /\ KeywordIdle /\ QueriesIdle /\ NormIdle /\ DispatchIdle /\ JsonIdle /\ PoolIdle /\ CoreIdle /\ PmcIdle /\ SidecarIdle /\ CrossrefIdle

SpecRunner == RunnerInit /\ [][RunnerNext]_vars

CrawlInit == CrawlStart /\ StoreIdle /\ KeyIdle /\ PaceIdle /\ FetchIdle /\ FormatIdle /\ LicenseIdle /\ PagingIdle /\ RunnerIdle /\ HarvIdle /\ OaiIdle /\ BiorxivIdle /\ KeywordIdle /\ QueriesIdle /\ NormIdle /\ DispatchIdle /\ JsonIdle /\ PoolIdle /\ CoreIdle /\ PmcIdle /\ SidecarIdle /\ CrossrefIdle

SpecCrawl == CrawlInit /\ [][CrawlNext]_vars

OaiInit == OaiStart /\ StoreIdle /\ KeyIdle /\ PaceIdle /\ FetchIdle /\ FormatIdle /\ LicenseIdle /\ PagingIdle /\ RunnerIdle /\ CrawlIdle /\ HarvIdle /\ BiorxivIdle /\ KeywordIdle /\ QueriesIdle /\ NormIdle /\ DispatchIdle /\ JsonIdle /\ PoolIdle /\ CoreIdle /\ PmcIdle /\ SidecarIdle /\ CrossrefIdle

SpecOai == OaiInit /\ [][OaiNext]_vars

BiorxivInit == BiorxivStart /\ StoreIdle /\ KeyIdle /\ PaceIdle /\ FetchIdle /\ FormatIdle /\ LicenseIdle /\ PagingIdle /\ RunnerIdle /\ CrawlIdle /\ OaiIdle /\ HarvIdle /\ KeywordIdle /\ QueriesIdle /\ NormIdle /\ DispatchIdle /\ JsonIdle /\ PoolIdle /\ CoreIdle /\ PmcIdle /\ SidecarIdle /\ CrossrefIdle

SpecBiorxiv == BiorxivInit /\ [][BiorxivNext]_vars

KeywordInit == KeywordStart /\ StoreIdle /\ KeyIdle /\ PaceIdle /\ FetchIdle /\ FormatIdle /\ LicenseIdle /\ PagingIdle /\ RunnerIdle /\ CrawlIdle /\ OaiIdle /\ BiorxivIdle /\ HarvIdle /\ QueriesIdle /\ NormIdle /\ DispatchIdle /\ JsonIdle /\ PoolIdle /\ CoreIdle /\ PmcIdle /\ SidecarIdle /\ CrossrefIdle

SpecKeyword == KeywordInit /\ [][KeywordNext]_vars

QueriesInit == QueriesStart /\ StoreIdle /\ KeyIdle /\ PaceIdle /\ FetchIdle /\ FormatIdle /\ LicenseIdle /\ PagingIdle /\ RunnerIdle /\ CrawlIdle /\ OaiIdle /\ BiorxivIdle /\ KeywordIdle /\ HarvIdle /\ NormIdle /\ DispatchIdle /\ JsonIdle /\ PoolIdle /\ CoreIdle /\ PmcIdle /\ SidecarIdle /\ CrossrefIdle

SpecQueries == QueriesInit /\ [][QueriesNext]_vars

NormInit == NormStart /\ StoreIdle /\ KeyIdle /\ PaceIdle /\ FetchIdle /\ FormatIdle /\ LicenseIdle /\ PagingIdle /\ RunnerIdle /\ CrawlIdle /\ OaiIdle /\ BiorxivIdle /\ KeywordIdle /\ QueriesIdle /\ HarvIdle /\ DispatchIdle /\ JsonIdle /\ PoolIdle /\ CoreIdle /\ PmcIdle /\ SidecarIdle /\ CrossrefIdle

SpecNorm == NormInit /\ [][NormNext]_vars

SpecCrawlFair == CrawlInit /\ [][CrawlNext]_vars /\ WF_vars(CrawlNext)

DispatchInit == DispatchStart /\ StoreIdle /\ KeyIdle /\ PaceIdle /\ FetchIdle /\ FormatIdle /\ LicenseIdle /\ PagingIdle /\ RunnerIdle /\ CrawlIdle /\ OaiIdle /\ BiorxivIdle /\ KeywordIdle /\ QueriesIdle /\ NormIdle /\ HarvIdle /\ JsonIdle /\ PoolIdle /\ CoreIdle /\ PmcIdle /\ SidecarIdle /\ CrossrefIdle

SpecDispatch == DispatchInit /\ [][DispatchNext]_vars

JsonInit == JsonStart /\ StoreIdle /\ KeyIdle /\ PaceIdle /\ FetchIdle /\ FormatIdle /\ LicenseIdle /\ PagingIdle /\ RunnerIdle /\ CrawlIdle /\ OaiIdle /\ BiorxivIdle /\ KeywordIdle /\ QueriesIdle /\ NormIdle /\ DispatchIdle /\ HarvIdle /\ PoolIdle /\ CoreIdle /\ PmcIdle /\ SidecarIdle /\ CrossrefIdle

SpecJson == JsonInit /\ [][JsonNext]_vars

PoolInit == PoolStart /\ StoreIdle /\ KeyIdle /\ PaceIdle /\ FetchIdle /\ FormatIdle /\ LicenseIdle /\ PagingIdle /\ RunnerIdle /\ CrawlIdle /\ OaiIdle /\ BiorxivIdle /\ KeywordIdle /\ QueriesIdle /\ NormIdle /\ DispatchIdle /\ JsonIdle /\ HarvIdle /\ CoreIdle /\ PmcIdle /\ SidecarIdle /\ CrossrefIdle

SpecPool == PoolInit /\ [][PoolNext]_vars

CoreInit == CoreStart /\ StoreIdle /\ KeyIdle /\ PaceIdle /\ FetchIdle /\ FormatIdle /\ LicenseIdle /\ PagingIdle /\ RunnerIdle /\ CrawlIdle /\ OaiIdle /\ BiorxivIdle /\ KeywordIdle /\ QueriesIdle /\ NormIdle /\ DispatchIdle /\ JsonIdle /\ PoolIdle /\ HarvIdle /\ PmcIdle /\ SidecarIdle /\ CrossrefIdle

SpecCore == CoreInit /\ [][CoreNext]_vars

PmcInit == PmcStart /\ StoreIdle /\ KeyIdle /\ PaceIdle /\ FetchIdle /\ FormatIdle /\ LicenseIdle /\ PagingIdle /\ RunnerIdle /\ CrawlIdle /\ OaiIdle /\ BiorxivIdle /\ KeywordIdle /\ QueriesIdle /\ NormIdle /\ DispatchIdle /\ JsonIdle /\ PoolIdle /\ CoreIdle /\ HarvIdle /\ SidecarIdle /\ CrossrefIdle

SpecPmc == PmcInit /\ [][PmcNext]_vars

SidecarInit == SidecarStart /\ StoreIdle /\ KeyIdle /\ PaceIdle /\ FetchIdle /\ FormatIdle /\ LicenseIdle /\ PagingIdle /\ RunnerIdle /\ CrawlIdle /\ OaiIdle /\ BiorxivIdle /\ KeywordIdle /\ QueriesIdle /\ NormIdle /\ DispatchIdle /\ JsonIdle /\ PoolIdle /\ CoreIdle /\ PmcIdle /\ HarvIdle /\ CrossrefIdle

SpecSidecar == SidecarInit /\ [][SidecarNext]_vars

CrossrefInit == CrossrefStart /\ StoreIdle /\ KeyIdle /\ PaceIdle /\ FetchIdle /\ FormatIdle /\ LicenseIdle /\ PagingIdle /\ RunnerIdle /\ CrawlIdle /\ OaiIdle /\ BiorxivIdle /\ KeywordIdle /\ QueriesIdle /\ NormIdle /\ DispatchIdle /\ JsonIdle /\ PoolIdle /\ CoreIdle /\ PmcIdle /\ SidecarIdle /\ HarvIdle

SpecCrossref == CrossrefInit /\ [][CrossrefNext]_vars

====
